---- MODULE Spec2Model ----
(***************************************************************************)
(* Rules engine of the chess practice tool: Board, GameState, Move,        *)
(* MoveGenerator and MoveExecutor, as state machines over the Python       *)
(* sources under src/chess.                                                *)
(*                                                                         *)
(* Python None is modelled by NoSquare for an optional square and by None  *)
(* for an optional piece, so that every value of a field has one shape.    *)
(* A piece is a record (color, piece_type, position); position is the      *)
(* piece's stored square, which Board.set_piece keeps up to date.          *)
(***************************************************************************)
EXTENDS Integers, Sequences, FiniteSets, TLC

\* ------------------------------------------------------------------ bounds

\* Largest number of moves the move history may hold when a new move is
\* executed (the game is cut off there).
MaxPlies == 2

\* ------------------------------------------------------------------ pieces

NoSquare == <<-1, -1>>

None == [color |-> "None", piece_type |-> "None", position |-> NoSquare]

Squares == (0..7) \X (0..7)

Piece(color, piece_type, position) ==
    [color |-> color, piece_type |-> piece_type, position |-> position]

move_offsets(piece_type) ==
    CASE piece_type = "KING" ->
            {<<1, 0>>, <<-1, 0>>, <<0, 1>>, <<0, -1>>,
             <<1, -1>>, <<1, 1>>, <<-1, -1>>, <<-1, 1>>}
      [] piece_type = "QUEEN" ->
            {<<1, 0>>, <<-1, 0>>, <<0, 1>>, <<0, -1>>,
             <<1, -1>>, <<1, 1>>, <<-1, -1>>, <<-1, 1>>}
      [] piece_type = "ROOK" -> {<<1, 0>>, <<-1, 0>>, <<0, 1>>, <<0, -1>>}
      [] piece_type = "BISHOP" -> {<<1, -1>>, <<1, 1>>, <<-1, -1>>, <<-1, 1>>}
      [] piece_type = "KNIGHT" ->
            {<<2, 1>>, <<2, -1>>, <<-2, 1>>, <<-2, -1>>,
             <<1, 2>>, <<1, -2>>, <<-1, 2>>, <<-1, -2>>}
      [] OTHER -> {}

is_sliding(piece_type) == piece_type \in {"QUEEN", "ROOK", "BISHOP"}

opponent(color) == IF color = "WHITE" THEN "BLACK" ELSE "WHITE"

\* ------------------------------------------------------------------ board

EmptyBoard == [sq \in Squares |-> None]

get_piece(board, square) == board[square]

\* A set_piece that writes the grid and leaves the piece's stored position alone.
set_piece_grid_only(board, square, piece) ==
    [board EXCEPT ![square] = piece]

set_piece(board, square, piece) ==
    [board EXCEPT ![square] =
        IF piece = None THEN None ELSE [piece EXCEPT !.position = square]]

\* ------------------------------------------------------------------ game state

CastlingRights(wk, wq, bk, bq) ==
    [white_kingside |-> wk, white_queenside |-> wq,
     black_kingside |-> bk, black_queenside |-> bq]

current_en_passant_target(game_state) ==
    IF game_state.move_history # << >>
    THEN game_state.move_history[Len(game_state.move_history)].current_en_passant_target
    ELSE game_state.initial_en_passant_target

current_en_passant_taking_square(game_state) ==
    LET en_passant_target == current_en_passant_target(game_state)
        forward_offset == IF game_state.current_turn = "WHITE" THEN 1 ELSE -1
    IN IF en_passant_target = NoSquare
       THEN NoSquare
       ELSE <<en_passant_target[1], en_passant_target[2] + forward_offset>>

\* ------------------------------------------------------------------ move generator

_is_on_board(square) ==
    /\ 0 <= square[1] /\ square[1] < 8
    /\ 0 <= square[2] /\ square[2] < 8

\* A ray loop that takes the first piece met as an attacker whatever its distance.
_ray_attacks_any_distance(board, square, attacking_color, direction) ==
    \E k \in 1..7 :
        LET check == <<square[1] + k * direction[1], square[2] + k * direction[2]>>
        IN /\ _is_on_board(check)
           /\ board[check] # None
           /\ \A j \in 1..(k - 1) :
                 board[<<square[1] + j * direction[1], square[2] + j * direction[2]>>] = None
           /\ board[check].color = attacking_color
           /\ <<-direction[1], -direction[2]>> \in move_offsets(board[check].piece_type)

\* The loop of is_square_attacked over one of the eight directions: the first piece
\* met on the ray decides.
_ray_attacks(board, square, attacking_color, direction) ==
    \E k \in 1..7 :
        LET check == <<square[1] + k * direction[1], square[2] + k * direction[2]>>
        IN /\ _is_on_board(check)
           /\ board[check] # None
           /\ \A j \in 1..(k - 1) :
                 board[<<square[1] + j * direction[1], square[2] + j * direction[2]>>] = None
           /\ board[check].color = attacking_color
           /\ <<-direction[1], -direction[2]>> \in move_offsets(board[check].piece_type)
           /\ \/ is_sliding(board[check].piece_type)
              \/ LET p == board[check].position
                     dx == IF p[1] >= square[1] THEN p[1] - square[1] ELSE square[1] - p[1]
                     dy == IF p[2] >= square[2] THEN p[2] - square[2] ELSE square[2] - p[2]
                     distance == IF dx >= dy THEN dx ELSE dy
                 IN distance = 1

is_square_attacked(board, square, attacking_color) ==
    \/ \E direction \in move_offsets("QUEEN") :
          _ray_attacks(board, square, attacking_color, direction)
    \/ \E offset \in move_offsets("KNIGHT") :
          LET check == <<square[1] + offset[1], square[2] + offset[2]>>
          IN /\ _is_on_board(check)
             /\ board[check] # None
             /\ board[check].color = attacking_color
             /\ board[check].piece_type = "KNIGHT"
    \/ LET pawn_attack_rank_offset == IF attacking_color = "WHITE" THEN -1 ELSE 1
       IN \E offset \in {<<-1, pawn_attack_rank_offset>>, <<1, pawn_attack_rank_offset>>} :
             LET check == <<square[1] + offset[1], square[2] + offset[2]>>
             IN /\ _is_on_board(check)
                /\ board[check] # None
                /\ board[check].color = attacking_color
                /\ board[check].piece_type = "PAWN"

\* Board.__iter__ runs file by file, rank by rank; is_in_check takes the first king.
is_in_check(board, color) ==
    LET kings == {sq \in Squares : board[sq] # None /\ board[sq].color = color
                                   /\ board[sq].piece_type = "KING"}
    IN IF kings = {}
       THEN FALSE
       ELSE LET king_position ==
                   CHOOSE sq \in kings :
                       \A other \in kings : sq[1] * 8 + sq[2] <= other[1] * 8 + other[2]
            IN is_square_attacked(board, king_position, opponent(color))

_get_sliding_moves(board, piece, direction) ==
    LET at(k) == <<piece.position[1] + k * direction[1],
                   piece.position[2] + k * direction[2]>>
    IN {at(k) : k \in {k \in 1..7 :
            /\ _is_on_board(at(k))
            /\ \A j \in 1..(k - 1) : board[at(j)] = None
            /\ \/ board[at(k)] = None
               \/ board[at(k)].color # piece.color}}

\* The square, as a set of at most one element (None is the empty set).
_get_single_move(board, piece, offset) ==
    LET target == <<piece.position[1] + offset[1], piece.position[2] + offset[2]>>
    IN IF /\ _is_on_board(target)
          /\ (board[target] = None \/ board[target].color # piece.color)
       THEN {target}
       ELSE {}

_get_pawn_moves(board, piece, game_state) ==
    LET file == piece.position[1]
        rank == piece.position[2]
        forward_offset == IF piece.color = "WHITE" THEN 1 ELSE -1
        one_move_forward == <<file, rank + forward_offset>>
        two_moves_forward == <<file, rank + forward_offset * 2>>
        diagonal_moves == {<<file - 1, rank + forward_offset>>,
                           <<file + 1, rank + forward_offset>>}
        taking_square == current_en_passant_taking_square(game_state)
    IN    {sq \in {one_move_forward} : _is_on_board(sq) /\ board[sq] = None}
       \cup
          {sq \in {two_moves_forward} :
              /\ _is_on_board(sq)
              /\ \/ (piece.color = "WHITE" /\ rank = 1)
                 \/ (piece.color = "BLACK" /\ rank = 6)
              /\ board[one_move_forward] = None
              /\ board[sq] = None}
       \cup
          {sq \in diagonal_moves :
              /\ _is_on_board(sq)
              /\ \/ (board[sq] # None /\ board[sq].color # piece.color)
                 \/ sq = taking_square}

get_possible_moves(board, piece, game_state) ==
    IF piece.position = NoSquare
    THEN {}
    ELSE IF piece.piece_type = "PAWN"
    THEN _get_pawn_moves(board, piece, game_state)
    ELSE UNION {IF is_sliding(piece.piece_type)
                THEN _get_sliding_moves(board, piece, offset)
                ELSE _get_single_move(board, piece, offset)
                : offset \in move_offsets(piece.piece_type)}

_get_capture_square(piece, to_square, game_state) ==
    IF /\ piece.piece_type = "PAWN"
       /\ to_square = current_en_passant_taking_square(game_state)
    THEN current_en_passant_target(game_state)
    ELSE to_square

\* The board on which _would_leave_king_in_check asks for check.
_simulated_board(board, piece, to_square, game_state) ==
    LET from_square == piece.position
        capture_square == _get_capture_square(piece, to_square, game_state)
        moved == set_piece(set_piece(board, from_square, None), to_square, piece)
    IN IF capture_square # to_square
       THEN set_piece(moved, capture_square, None)
       ELSE moved

\* A filter that asks for check on the board as it stands, the move not yet made.
_would_leave_king_in_check_unmoved(board, piece, to_square, game_state) ==
    is_in_check(board, piece.color)

_would_leave_king_in_check(board, piece, to_square, game_state) ==
    is_in_check(_simulated_board(board, piece, to_square, game_state), piece.color)

\* A restore that puts back the origin and the destination only.
_restored_board_two_squares(board, piece, to_square, game_state) ==
    LET from_square == piece.position
        saved_from == get_piece(board, from_square)
        saved_to == get_piece(board, to_square)
        simulated == _simulated_board(board, piece, to_square, game_state)
    IN set_piece(set_piece(simulated, from_square, saved_from), to_square, saved_to)

\* The board _would_leave_king_in_check leaves behind: the move is made on the
\* real board with set_piece, and the saved occupants of the origin, the
\* destination and (en passant) the capture square are then put back.
_restored_board(board, piece, to_square, game_state) ==
    LET from_square == piece.position
        capture_square == _get_capture_square(piece, to_square, game_state)
        saved_from == get_piece(board, from_square)
        saved_to == get_piece(board, to_square)
        saved_capture == get_piece(board, capture_square)
        simulated == _simulated_board(board, piece, to_square, game_state)
        restored == set_piece(set_piece(simulated, from_square, saved_from), to_square, saved_to)
    IN IF capture_square # to_square
       THEN set_piece(restored, capture_square, saved_capture)
       ELSE restored

\* The board after the filter loop of get_legal_moves has tested every
\* destination in to_squares, one after the other: each test starts from the
\* board the test before it left, and reads the moving piece off its origin
\* square of that board; a test that left the origin empty ends the chain, no
\* later test having a piece to move.
RECURSIVE _board_after_tests(_, _, _, _)
_board_after_tests(board, piece, to_squares, game_state) ==
    IF to_squares = {}
    THEN board
    ELSE LET to_square == CHOOSE square \in to_squares : TRUE
             tested == _restored_board(board, piece, to_square, game_state)
             restored_piece == get_piece(tested, piece.position)
         IN IF restored_piece = None
            THEN tested
            ELSE _board_after_tests(tested, restored_piece, to_squares \ {to_square}, game_state)

\* _get_castling_moves raises ValueError when a right is set, the squares between
\* are empty, and the corner does not hold a rook of the king's color.
_castling_data(king, game_state) ==
    IF king.color = "WHITE"
    THEN [can_kingside |-> game_state.castling_rights.white_kingside,
          can_queenside |-> game_state.castling_rights.white_queenside,
          king_start_rank |-> 0]
    ELSE [can_kingside |-> game_state.castling_rights.black_kingside,
          can_queenside |-> game_state.castling_rights.black_queenside,
          king_start_rank |-> 7]

_castling_reaches_sides(board, king, game_state) ==
    /\ ~is_in_check(board, king.color)
    /\ king.position[1] = 4
    /\ king.position[2] = _castling_data(king, game_state).king_start_rank

_kingside_clear(board, king, game_state) ==
    /\ _castling_data(king, game_state).can_kingside
    /\ board[<<5, king.position[2]>>] = None
    /\ board[<<6, king.position[2]>>] = None

_queenside_clear(board, king, game_state) ==
    /\ _castling_data(king, game_state).can_queenside
    /\ board[<<3, king.position[2]>>] = None
    /\ board[<<2, king.position[2]>>] = None
    /\ board[<<1, king.position[2]>>] = None

_rook_missing(board, king, file) ==
    LET rook == board[<<file, king.position[2]>>]
    IN \/ rook = None
       \/ rook.piece_type # "ROOK"
       \/ rook.color # king.color

_get_castling_moves_raises(board, king, game_state) ==
    /\ _castling_reaches_sides(board, king, game_state)
    /\ \/ (_kingside_clear(board, king, game_state) /\ _rook_missing(board, king, 7))
       \/ (_queenside_clear(board, king, game_state) /\ _rook_missing(board, king, 0))

\* A castling generator that tests only the square the king lands on for attack.
_get_castling_moves_landing_only(board, king, game_state) ==
    IF ~_castling_reaches_sides(board, king, game_state)
    THEN {}
    ELSE LET rank == king.position[2]
             opponent_color == opponent(king.color)
         IN    {sq \in {<<6, rank>>} :
                   /\ _kingside_clear(board, king, game_state)
                   /\ ~is_square_attacked(board, <<6, rank>>, opponent_color)}
            \cup
               {sq \in {<<2, rank>>} :
                   /\ _queenside_clear(board, king, game_state)
                   /\ ~is_square_attacked(board, <<2, rank>>, opponent_color)}

\* The list _get_castling_moves returns when it does not raise.
_get_castling_moves(board, king, game_state) ==
    IF ~_castling_reaches_sides(board, king, game_state)
    THEN {}
    ELSE LET rank == king.position[2]
             opponent_color == opponent(king.color)
         IN    {sq \in {<<6, rank>>} :
                   /\ _kingside_clear(board, king, game_state)
                   /\ ~is_square_attacked(board, <<5, rank>>, opponent_color)
                   /\ ~is_square_attacked(board, <<6, rank>>, opponent_color)}
            \cup
               {sq \in {<<2, rank>>} :
                   /\ _queenside_clear(board, king, game_state)
                   /\ ~is_square_attacked(board, <<3, rank>>, opponent_color)
                   /\ ~is_square_attacked(board, <<2, rank>>, opponent_color)}

get_legal_moves_raises(board, piece, game_state) ==
    /\ piece.piece_type = "KING"
    /\ _get_castling_moves_raises(board, piece, game_state)

\* The board get_legal_moves leaves, whether it returns or raises: the castling
\* code that follows the filter loop only reads the board.
board_after_get_legal_moves(board, piece, game_state) ==
    _board_after_tests(board, piece, get_possible_moves(board, piece, game_state), game_state)

\* The list get_legal_moves returns when it does not raise.
get_legal_moves(board, piece, game_state) ==
       {to_square \in get_possible_moves(board, piece, game_state) :
           ~_would_leave_king_in_check(board, piece, to_square, game_state)}
    \cup
       (IF piece.piece_type = "KING"
        THEN _get_castling_moves(board, piece, game_state)
        ELSE {})

\* ------------------------------------------------------------------ move record

\* The fields of the Move dataclass.
Move_fields ==
    {"from_square", "to_square", "piece", "captured_piece", "current_en_passant_target",
     "is_en_passant", "is_castling", "castling_rook_from", "castling_rook_to"}

\* Move(**move_data), for a move_data whose keys are all fields of Move.
Move(move_data) ==
    [from_square |-> move_data.from_square,
     to_square |-> move_data.to_square,
     piece |-> move_data.piece,
     captured_piece |-> move_data.captured_piece,
     current_en_passant_target |-> move_data.current_en_passant_target,
     is_en_passant |-> move_data.is_en_passant,
     is_castling |-> move_data.is_castling,
     castling_rook_from |-> move_data.castling_rook_from,
     castling_rook_to |-> move_data.castling_rook_to]

\* What undo_move and redo_move return when there is nothing to undo or redo.
NoMove ==
    [from_square |-> NoSquare, to_square |-> NoSquare, piece |-> None,
     captured_piece |-> None, current_en_passant_target |-> NoSquare,
     is_en_passant |-> FALSE, is_castling |-> FALSE,
     castling_rook_from |-> NoSquare, castling_rook_to |-> NoSquare]

record_move(game_state, move) ==
    [game_state EXCEPT
        !.move_history = Append(@, move),
        !.current_turn = IF @ = "WHITE" THEN "BLACK" ELSE "WHITE"]

\* ------------------------------------------------------------------ move executor

\* The result of a call: the board and game state it leaves, the exception it raised
\* ("None" when it returned; a ValueError with the start of its message) and the value
\* it returned.
Outcome(board, game_state, raised, result) ==
    [board |-> board, game_state |-> game_state, raised |-> raised, result |-> result]

\* A table of promotion classes that also offers the king.
PromotionTypesWithKing == {"QUEEN", "ROOK", "BISHOP", "KNIGHT", "KING"}

PromotionTypes == {"QUEEN", "ROOK", "BISHOP", "KNIGHT"}

_create_promoted_piece(piece_type, color, position) == Piece(color, piece_type, position)

_is_castling_move(piece, from_square, to_square) ==
    /\ piece.piece_type = "KING"
    /\ (to_square[1] - from_square[1] = 2 \/ from_square[1] - to_square[1] = 2)

_is_en_passant_move(game_state, piece, to_square) ==
    /\ piece.piece_type = "PAWN"
    /\ current_en_passant_taking_square(game_state) # NoSquare
    /\ to_square = current_en_passant_taking_square(game_state)

is_promotion_move(board, from_square, to_square) ==
    LET piece == get_piece(board, from_square)
    IN /\ piece # None
       /\ piece.piece_type = "PAWN"
       /\ to_square[2] = (IF piece.color = "WHITE" THEN 7 ELSE 0)

\* move_data is the dict the executor builds; keys is the set of its keys, and
\* is_promotion and promoted_to read as dict.get does when the key is absent.
_prepare_castling_move(piece, from_square, to_square) ==
    LET rank == from_square[2]
        kingside == to_square[1] - from_square[1] = 2
    IN [keys |-> Move_fields,
        from_square |-> from_square,
        to_square |-> to_square,
        piece |-> piece,
        captured_piece |-> None,
        current_en_passant_target |-> NoSquare,
        is_en_passant |-> FALSE,
        is_castling |-> TRUE,
        castling_rook_from |-> IF kingside THEN <<7, rank>> ELSE <<0, rank>>,
        castling_rook_to |-> IF kingside THEN <<5, rank>> ELSE <<3, rank>>,
        is_promotion |-> FALSE,
        promoted_to |-> None]

\* An en passant record that looks for the captured piece on the destination square,
\* as a normal capture does.
_prepare_en_passant_move_takes_destination(board, game_state, piece, from_square, to_square) ==
    [keys |-> Move_fields,
     from_square |-> from_square,
     to_square |-> to_square,
     piece |-> piece,
     captured_piece |-> get_piece(board, to_square),
     current_en_passant_target |-> NoSquare,
     is_en_passant |-> TRUE,
     is_castling |-> FALSE,
     castling_rook_from |-> NoSquare,
     castling_rook_to |-> NoSquare,
     is_promotion |-> FALSE,
     promoted_to |-> None]

_prepare_en_passant_move(board, game_state, piece, from_square, to_square) ==
    [keys |-> Move_fields,
     from_square |-> from_square,
     to_square |-> to_square,
     piece |-> piece,
     captured_piece |-> get_piece(board, current_en_passant_target(game_state)),
     current_en_passant_target |-> NoSquare,
     is_en_passant |-> TRUE,
     is_castling |-> FALSE,
     castling_rook_from |-> NoSquare,
     castling_rook_to |-> NoSquare,
     is_promotion |-> FALSE,
     promoted_to |-> None]

\* A target on the square the pawn passed over, as the FEN field names it.
_calculate_en_passant_target_passed_over(piece, from_square, to_square) ==
    IF piece.piece_type # "PAWN"
    THEN NoSquare
    ELSE IF ~(to_square[2] - from_square[2] = 2 \/ from_square[2] - to_square[2] = 2)
    THEN NoSquare
    ELSE <<to_square[1], (from_square[2] + to_square[2]) \div 2>>

_calculate_en_passant_target(piece, from_square, to_square) ==
    IF piece.piece_type # "PAWN"
    THEN NoSquare
    ELSE IF ~(to_square[2] - from_square[2] = 2 \/ from_square[2] - to_square[2] = 2)
    THEN NoSquare
    ELSE to_square

_prepare_normal_move(board, piece, from_square, to_square) ==
    [keys |-> Move_fields,
     from_square |-> from_square,
     to_square |-> to_square,
     piece |-> piece,
     captured_piece |-> get_piece(board, to_square),
     current_en_passant_target |-> _calculate_en_passant_target(piece, from_square, to_square),
     is_en_passant |-> FALSE,
     is_castling |-> FALSE,
     castling_rook_from |-> NoSquare,
     castling_rook_to |-> NoSquare,
     is_promotion |-> FALSE,
     promoted_to |-> None]

_apply_move_to_board(board, game_state, move_data) ==
    LET lifted == set_piece(board, move_data.from_square, None)
        placed == IF move_data.is_promotion /\ move_data.promoted_to # None
                  THEN set_piece(lifted, move_data.to_square, move_data.promoted_to)
                  ELSE set_piece(lifted, move_data.to_square, move_data.piece)
    IN IF move_data.is_castling
       THEN LET rook == get_piece(placed, move_data.castling_rook_from)
            IN set_piece(set_piece(placed, move_data.castling_rook_from, None),
                         move_data.castling_rook_to, rook)
       ELSE IF move_data.is_en_passant
       THEN set_piece(placed, current_en_passant_target(game_state), None)
       ELSE placed

\* board is the board after _apply_move_to_board, as execute_move passes it.
_update_castling_rights(board, castling_rights, piece, from_square, to_square) ==
    LET king_moved ==
            IF piece.piece_type = "KING"
            THEN IF piece.color = "WHITE"
                 THEN [castling_rights EXCEPT !.white_kingside = FALSE,
                                              !.white_queenside = FALSE]
                 ELSE [castling_rights EXCEPT !.black_kingside = FALSE,
                                              !.black_queenside = FALSE]
            ELSE castling_rights
        rook_moved ==
            IF piece.piece_type = "ROOK"
            THEN IF piece.color = "WHITE" /\ from_square[2] = 0
                 THEN IF from_square[1] = 7
                      THEN [king_moved EXCEPT !.white_kingside = FALSE]
                      ELSE IF from_square[1] = 0
                      THEN [king_moved EXCEPT !.white_queenside = FALSE]
                      ELSE king_moved
                 ELSE IF piece.color = "BLACK" /\ from_square[2] = 7
                 THEN IF from_square[1] = 7
                      THEN [king_moved EXCEPT !.black_kingside = FALSE]
                      ELSE IF from_square[1] = 0
                      THEN [king_moved EXCEPT !.black_queenside = FALSE]
                      ELSE king_moved
                 ELSE king_moved
            ELSE king_moved
        captured_piece == get_piece(board, to_square)
    IN IF captured_piece # None /\ captured_piece.piece_type = "ROOK"
       THEN IF captured_piece.color = "WHITE" /\ to_square[2] = 0
            THEN IF to_square[1] = 7
                 THEN [rook_moved EXCEPT !.white_kingside = FALSE]
                 ELSE IF to_square[1] = 0
                 THEN [rook_moved EXCEPT !.white_queenside = FALSE]
                 ELSE rook_moved
            ELSE IF captured_piece.color = "BLACK" /\ to_square[2] = 7
            THEN IF to_square[1] = 7
                 THEN [rook_moved EXCEPT !.black_kingside = FALSE]
                 ELSE IF to_square[1] = 0
                 THEN [rook_moved EXCEPT !.black_queenside = FALSE]
                 ELSE rook_moved
            ELSE rook_moved
       ELSE rook_moved

\* An execute that leaves the undone moves on the redo stack.
redo_history_kept(game_state) == game_state

\* self.game_state.redo_history.clear()
redo_history_clear(game_state) == [game_state EXCEPT !.redo_history = << >>]

\* promotion_piece_type is "None" when the caller passes no promotion kind.
execute_move(board, game_state, from_square, to_square, promotion_piece_type) ==
    LET piece == get_piece(board, from_square)
    IN IF piece = None
       THEN Outcome(board, game_state, "AttributeError", NoMove)
       ELSE IF promotion_piece_type # "None" /\ promotion_piece_type \notin PromotionTypes
       THEN Outcome(board, game_state, "KeyError", NoMove)
       ELSE
         LET prepared ==
                 IF _is_castling_move(piece, from_square, to_square)
                 THEN _prepare_castling_move(piece, from_square, to_square)
                 ELSE IF _is_en_passant_move(game_state, piece, to_square)
                 THEN _prepare_en_passant_move(board, game_state, piece,
                                               from_square, to_square)
                 ELSE _prepare_normal_move(board, piece, from_square, to_square)
             move_data ==
                 IF promotion_piece_type # "None"
                 THEN [prepared EXCEPT
                          !.keys = @ \cup {"is_promotion", "promoted_to"},
                          !.is_promotion = TRUE,
                          !.promoted_to = _create_promoted_piece(
                                              promotion_piece_type, piece.color, to_square)]
                 ELSE prepared
             applied == _apply_move_to_board(board, game_state, move_data)
             updated ==
                 redo_history_clear(
                     [game_state EXCEPT
                         !.castling_rights = _update_castling_rights(
                                                 applied, @, piece, from_square, to_square)])
         IN IF ~(move_data.keys \subseteq Move_fields)
            THEN Outcome(applied, updated, "TypeError", NoMove)
            ELSE Outcome(applied, record_move(updated, Move(move_data)), "None",
                         Move(move_data))

_restore_main_piece(board, move) ==
    set_piece(set_piece(board, move.to_square, None), move.from_square, move.piece)

_restore_special_move_pieces(board, move) ==
    IF move.is_castling
    THEN LET rook == get_piece(board, move.castling_rook_to)
         IN set_piece(set_piece(board, move.castling_rook_to, None),
                      move.castling_rook_from, rook)
    ELSE board

_restore_captured_piece(board, move) ==
    IF move.captured_piece = None
    THEN board
    ELSE IF move.is_en_passant
    THEN set_piece(board, <<move.to_square[1], move.from_square[2]>>, move.captured_piece)
    ELSE set_piece(board, move.to_square, move.captured_piece)

\* An undo that hands the turn back without asking whether a move was made.
undo_move_unguarded(board, game_state) ==
    Outcome(board, [game_state EXCEPT !.current_turn = opponent(@)], "None", NoMove)

undo_move(board, game_state) ==
    IF game_state.move_history = << >>
    THEN Outcome(board, game_state, "None", NoMove)
    ELSE LET move == game_state.move_history[Len(game_state.move_history)]
             restored ==
                 _restore_captured_piece(
                     _restore_special_move_pieces(_restore_main_piece(board, move), move),
                     move)
         IN Outcome(restored,
                    [game_state EXCEPT
                        !.move_history = SubSeq(@, 1, Len(@) - 1),
                        !.redo_history = Append(@, move),
                        !.current_turn = move.piece.color],
                    "None", move)

\* redo_move reads move.is_promotion and move.promoted_to while it builds move_data,
\* after it has popped the move from the redo history.
redo_move(board, game_state) ==
    IF game_state.redo_history = << >>
    THEN Outcome(board, game_state, "None", NoMove)
    ELSE LET move == game_state.redo_history[Len(game_state.redo_history)]
             popped == [game_state EXCEPT !.redo_history = SubSeq(@, 1, Len(@) - 1)]
         IN IF ~({"is_promotion", "promoted_to"} \subseteq Move_fields)
            THEN Outcome(board, popped, "AttributeError", NoMove)
            ELSE
              LET move_data ==
                      [keys |-> {"from_square", "to_square", "piece", "is_castling",
                                 "castling_rook_from", "castling_rook_to",
                                 "is_en_passant", "is_promotion", "promoted_to"},
                       from_square |-> move.from_square,
                       to_square |-> move.to_square,
                       piece |-> move.piece,
                       captured_piece |-> None,
                       current_en_passant_target |-> NoSquare,
                       is_en_passant |-> move.is_en_passant,
                       is_castling |-> move.is_castling,
                       castling_rook_from |-> move.castling_rook_from,
                       castling_rook_to |-> move.castling_rook_to,
                       is_promotion |-> move.is_promotion,
                       promoted_to |-> move.promoted_to]
                  applied == _apply_move_to_board(board, popped, move_data)
                  removed ==
                      IF move.is_en_passant /\ move.captured_piece # None
                      THEN set_piece(applied, <<move.to_square[1], move.from_square[2]>>,
                                     None)
                      ELSE applied
              IN Outcome(removed,
                         [popped EXCEPT
                             !.move_history = Append(@, move),
                             !.current_turn = opponent(move.piece.color)],
                         "None", move)

\* for _ in range(count): self.undo_move()
RECURSIVE _undo_times(_, _)
_undo_times(outcome, count) ==
    IF count <= 0 \/ outcome.raised # "None"
    THEN outcome
    ELSE _undo_times(undo_move(outcome.board, outcome.game_state), count - 1)

\* for _ in range(count): self.redo_move()
RECURSIVE _redo_times(_, _)
_redo_times(outcome, count) ==
    IF count <= 0 \/ outcome.raised # "None"
    THEN outcome
    ELSE _redo_times(redo_move(outcome.board, outcome.game_state), count - 1)

\* A jump whose range test has lost its lower half: target_index > max_index only.
jump_to_history_index_no_lower_test(board, game_state, target_index) ==
    LET current == Len(game_state.move_history)
        max_index == current + Len(game_state.redo_history)
    IN IF target_index > max_index
       THEN Outcome(board, game_state, "ValueError: Invalid history index", NoMove)
       ELSE IF target_index < current
       THEN [_undo_times(Outcome(board, game_state, "None", NoMove),
                         current - target_index) EXCEPT !.result = NoMove]
       ELSE IF target_index > current
       THEN [_redo_times(Outcome(board, game_state, "None", NoMove),
                         target_index - current) EXCEPT !.result = NoMove]
       ELSE Outcome(board, game_state, "None", NoMove)

jump_to_history_index(board, game_state, target_index) ==
    LET current == Len(game_state.move_history)
        max_index == current + Len(game_state.redo_history)
    IN IF target_index < 0
       THEN Outcome(board, game_state, "ValueError: Invalid history index", NoMove)
       ELSE IF target_index > max_index
       THEN Outcome(board, game_state, "ValueError: Invalid history index", NoMove)
       ELSE IF target_index < current
       THEN [_undo_times(Outcome(board, game_state, "None", NoMove),
                         current - target_index) EXCEPT !.result = NoMove]
       ELSE IF target_index > current
       THEN [_redo_times(Outcome(board, game_state, "None", NoMove),
                         target_index - current) EXCEPT !.result = NoMove]
       ELSE Outcome(board, game_state, "None", NoMove)

\* ------------------------------------------------------------------ loading a position

FENData(pieces, active_color, castling_rights, en_passant_target, halfmove_clock, fullmove_number) ==
    [pieces |-> pieces, active_color |-> active_color,
     castling_rights |-> castling_rights, en_passant_target |-> en_passant_target,
     halfmove_clock |-> halfmove_clock, fullmove_number |-> fullmove_number]

\* Board.clear, then Board.set_piece for each piece of a position, the way
\* Board.setup_initial_position places the standard start. (FENLoader.load hands the
\* parsed pieces to the board; the positions here are placed piece by piece.)
RECURSIVE place_pieces(_, _)
place_pieces(board, pieces) ==
    IF pieces = {}
    THEN board
    ELSE LET piece == CHOOSE p \in pieces : TRUE
         IN place_pieces(set_piece(board, piece.position, piece), pieces \ {piece})

\* GameState.reset followed by the assignments of GameState.load_from_fen_data.
GameState_load_from_fen_data(fen_data) ==
    [move_history |-> << >>,
     redo_history |-> << >>,
     current_turn |-> fen_data.active_color,
     castling_rights |-> fen_data.castling_rights,
     halfmove_clock |-> fen_data.halfmove_clock,
     fullmove_number |-> fen_data.fullmove_number,
     initial_en_passant_target |-> fen_data.en_passant_target]

W(piece_type, file, rank) == Piece("WHITE", piece_type, <<file, rank>>)

B(piece_type, file, rank) == Piece("BLACK", piece_type, <<file, rank>>)

\* 4k2r/8/6N1/8/8/8/7P/4K2R w Kk - 0 1
FenKingside ==
    FENData({W("KING", 4, 0), W("ROOK", 7, 0), W("PAWN", 7, 1), W("KNIGHT", 6, 5),
             B("KING", 4, 7), B("ROOK", 7, 7)},
            "WHITE", CastlingRights(TRUE, FALSE, TRUE, FALSE), NoSquare, 0, 1)

\* r3k3/p7/8/8/8/8/P7/R3K3 b Qq - 0 1
FenQueenside ==
    FENData({W("KING", 4, 0), W("ROOK", 0, 0), W("PAWN", 0, 1),
             B("KING", 4, 7), B("ROOK", 0, 7), B("PAWN", 0, 6)},
            "BLACK", CastlingRights(FALSE, TRUE, FALSE, TRUE), NoSquare, 0, 1)

\* 4k3/3p4/8/4P3/8/8/8/4K3 b - - 0 1
FenDoublePush ==
    FENData({W("KING", 4, 0), W("PAWN", 4, 4), B("KING", 4, 7), B("PAWN", 3, 6)},
            "BLACK", CastlingRights(FALSE, FALSE, FALSE, FALSE), NoSquare, 0, 1)

\* 4k3/8/8/3pP3/8/8/8/4K3 w - d6 0 3
FenEnPassant ==
    FENData({W("KING", 4, 0), W("PAWN", 4, 4), B("KING", 4, 7), B("PAWN", 3, 4)},
            "WHITE", CastlingRights(FALSE, FALSE, FALSE, FALSE), <<3, 4>>, 0, 3)

\* 3r3k/4P3/8/8/8/8/8/4K3 w - - 0 1
FenPromotion ==
    FENData({W("KING", 4, 0), W("PAWN", 4, 6), B("KING", 7, 7), B("ROOK", 3, 7)},
            "WHITE", CastlingRights(FALSE, FALSE, FALSE, FALSE), NoSquare, 0, 1)

\* 4k3/8/8/8/8/7R/6b1/4K2R b K - 0 1
FenRecapture ==
    FENData({W("KING", 4, 0), W("ROOK", 7, 0), W("ROOK", 7, 2),
             B("KING", 4, 7), B("BISHOP", 6, 1)},
            "BLACK", CastlingRights(TRUE, FALSE, FALSE, FALSE), NoSquare, 0, 1)

\* 4k3/8/8/8/3pP3/8/8/4K3 b - e3 0 1
FenEnPassantBlack ==
    FENData({W("KING", 4, 0), W("PAWN", 4, 3), B("KING", 4, 7), B("PAWN", 3, 3)},
            "BLACK", CastlingRights(FALSE, FALSE, FALSE, FALSE), <<4, 3>>, 0, 1)

\* 4k3/8/8/8/8/8/4r3/4K2R w K - 0 1
FenCastleInCheck ==
    FENData({W("KING", 4, 0), W("ROOK", 7, 0), B("KING", 4, 7), B("ROOK", 4, 1)},
            "WHITE", CastlingRights(TRUE, FALSE, FALSE, FALSE), NoSquare, 0, 1)

StartPositions ==
    {FenKingside, FenQueenside, FenDoublePush, FenEnPassant, FenEnPassantBlack,
     FenPromotion, FenRecapture, FenCastleInCheck}

\* ------------------------------------------------------------------ FEN strings

\* A Python string is the sequence of its characters.
Digits == {"0", "1", "2", "3", "4", "5", "6", "7", "8", "9"}

digit_value(char) ==
    CASE char = "0" -> 0 [] char = "1" -> 1 [] char = "2" -> 2 [] char = "3" -> 3
      [] char = "4" -> 4 [] char = "5" -> 5 [] char = "6" -> 6 [] char = "7" -> 7
      [] char = "8" -> 8 [] char = "9" -> 9

\* str.split(sep): the fields between the occurrences of sep, empty fields kept.
RECURSIVE split(_, _)
split(chars, sep) ==
    IF \A i \in 1..Len(chars) : chars[i] # sep
    THEN <<chars>>
    ELSE LET first == CHOOSE i \in 1..Len(chars) :
                          chars[i] = sep /\ \A j \in 1..(i - 1) : chars[j] # sep
         IN <<SubSeq(chars, 1, first - 1)>>
                \o split(SubSeq(chars, first + 1, Len(chars)), sep)

NonEmpty(chars) == chars # << >>

\* str.strip().split(): the fields between runs of blanks.
split_blanks(chars) == SelectSeq(split(chars, " "), NonEmpty)

\* int(text) raises ValueError: no digits, or something that is not a digit after an
\* optional sign.
int_raises(chars) ==
    LET digits == IF chars # << >> /\ chars[1] \in {"-", "+"} THEN Tail(chars) ELSE chars
    IN digits = << >> \/ \E i \in 1..Len(digits) : digits[i] \notin Digits

RECURSIVE digits_value(_)
digits_value(digits) ==
    IF digits = << >>
    THEN 0
    ELSE 10 * digits_value(SubSeq(digits, 1, Len(digits) - 1))
             + digit_value(digits[Len(digits)])

int(chars) ==
    IF chars[1] = "-"
    THEN 0 - digits_value(Tail(chars))
    ELSE IF chars[1] = "+" THEN digits_value(Tail(chars)) ELSE digits_value(chars)

PIECE_MAP ==
    [char \in {"K", "Q", "R", "B", "N", "P", "k", "q", "r", "b", "n", "p"} |->
        CASE char = "K" -> <<"KING", "WHITE">>   [] char = "Q" -> <<"QUEEN", "WHITE">>
          [] char = "R" -> <<"ROOK", "WHITE">>   [] char = "B" -> <<"BISHOP", "WHITE">>
          [] char = "N" -> <<"KNIGHT", "WHITE">> [] char = "P" -> <<"PAWN", "WHITE">>
          [] char = "k" -> <<"KING", "BLACK">>   [] char = "q" -> <<"QUEEN", "BLACK">>
          [] char = "r" -> <<"ROOK", "BLACK">>   [] char = "b" -> <<"BISHOP", "BLACK">>
          [] char = "n" -> <<"KNIGHT", "BLACK">> [] char = "p" -> <<"PAWN", "BLACK">>]

\* The loop of _parse_piece_placement over the characters of one rank, from a file on:
\* whether it raised, the file reached and the pieces placed. A piece is kept with the
\* square it is filed under.
RECURSIVE _parse_rank(_, _, _)
_parse_rank(rank_str, file, internal_rank) ==
    IF rank_str = << >>
    THEN [raised |-> FALSE, file |-> file, pieces |-> {}]
    ELSE LET char == Head(rank_str)
         IN IF char \in Digits
            THEN IF digit_value(char) < 1 \/ digit_value(char) > 8
                 THEN [raised |-> TRUE, file |-> file, pieces |-> {}]
                 ELSE _parse_rank(Tail(rank_str), file + digit_value(char), internal_rank)
            ELSE IF char \in DOMAIN PIECE_MAP
            THEN LET rest == _parse_rank(Tail(rank_str), file + 1, internal_rank)
                 IN [rest EXCEPT !.pieces =
                        @ \cup {Piece(PIECE_MAP[char][2], PIECE_MAP[char][1],
                                      <<file, internal_rank>>)}]
            ELSE [raised |-> TRUE, file |-> file, pieces |-> {}]

_parse_piece_placement_raises(placement) ==
    LET ranks == split(placement, "/")
    IN \/ Len(ranks) # 8
       \/ \E fen_rank_idx \in 0..7 :
              LET parsed == _parse_rank(ranks[fen_rank_idx + 1], 0, 7 - fen_rank_idx)
              IN parsed.raised \/ parsed.file # 8

_parse_piece_placement(placement) ==
    LET ranks == split(placement, "/")
    IN UNION {_parse_rank(ranks[fen_rank_idx + 1], 0, 7 - fen_rank_idx).pieces :
                 fen_rank_idx \in 0..7}

_parse_active_color_raises(color) == color \notin {<<"w">>, <<"b">>}

_parse_active_color(color) == IF color = <<"w">> THEN "WHITE" ELSE "BLACK"

_parse_castling_raises(castling) ==
    /\ castling # <<"-">>
    /\ \E i \in 1..Len(castling) : castling[i] \notin {"K", "Q", "k", "q"}

_parse_castling(castling) ==
    IF castling = <<"-">>
    THEN CastlingRights(FALSE, FALSE, FALSE, FALSE)
    ELSE CastlingRights(\E i \in 1..Len(castling) : castling[i] = "K",
                        \E i \in 1..Len(castling) : castling[i] = "Q",
                        \E i \in 1..Len(castling) : castling[i] = "k",
                        \E i \in 1..Len(castling) : castling[i] = "q")

_parse_en_passant_raises(en_passant) ==
    /\ en_passant # <<"-">>
    /\ \/ Len(en_passant) # 2
       \/ en_passant[1] \notin {"a", "b", "c", "d", "e", "f", "g", "h"}
       \/ en_passant[2] \notin {"3", "6"}

\* The FEN field names the landing square; the stored target is the square of the pawn
\* that can be captured.
_parse_en_passant(en_passant) ==
    IF en_passant = <<"-">>
    THEN NoSquare
    ELSE LET file == CHOOSE f \in 0..7 :
                         <<"a", "b", "c", "d", "e", "f", "g", "h">>[f + 1] = en_passant[1]
             pawn_rank == IF en_passant[2] = "3" THEN 3 ELSE 4
         IN <<file, pawn_rank>>

_parse_halfmove_raises(halfmove) == int_raises(halfmove) \/ int(halfmove) < 0

_parse_halfmove(halfmove) == int(halfmove)

_parse_fullmove_raises(fullmove) == int_raises(fullmove) \/ int(fullmove) < 1

_parse_fullmove(fullmove) == int(fullmove)

\* FENParser.parse raises FENError.
FENParser_parse_raises(fen_string) ==
    LET parts == split_blanks(fen_string)
    IN \/ Len(parts) # 6
       \/ _parse_piece_placement_raises(parts[1])
       \/ _parse_active_color_raises(parts[2])
       \/ _parse_castling_raises(parts[3])
       \/ _parse_en_passant_raises(parts[4])
       \/ _parse_halfmove_raises(parts[5])
       \/ _parse_fullmove_raises(parts[6])

\* The FENData FENParser.parse returns when it does not raise.
FENParser_parse(fen_string) ==
    LET parts == split_blanks(fen_string)
    IN FENData(_parse_piece_placement(parts[1]),
               _parse_active_color(parts[2]),
               _parse_castling(parts[3]),
               _parse_en_passant(parts[4]),
               _parse_halfmove(parts[5]),
               _parse_fullmove(parts[6]))

\* Board.load_from_fen_data: the board cleared, then each piece of the FEN data set on
\* its square.
Board_load_from_fen_data(fen_data) == place_pieces(EmptyBoard, fen_data.pieces)

\* A load that resets the game state before it has parsed the string.
FENLoader_load_resets_first(board, game_state, fen_string) ==
    IF FENParser_parse_raises(fen_string)
    THEN Outcome(board,
                 [game_state EXCEPT !.move_history = << >>, !.redo_history = << >>,
                                    !.current_turn = "WHITE"],
                 "FENError", NoMove)
    ELSE Outcome(Board_load_from_fen_data(FENParser_parse(fen_string)),
                 GameState_load_from_fen_data(FENParser_parse(fen_string)),
                 "None", NoMove)

FENLoader_load(board, game_state, fen_string) ==
    IF FENParser_parse_raises(fen_string)
    THEN Outcome(board, game_state, "FENError", NoMove)
    ELSE Outcome(Board_load_from_fen_data(FENParser_parse(fen_string)),
                 GameState_load_from_fen_data(FENParser_parse(fen_string)),
                 "None", NoMove)

\* "4k2r/8/6N1/8/8/8/7P/4K2R w Kk - 0 1"
FenStringKingside ==
    <<"4", "k", "2", "r", "/", "8", "/", "6", "N", "1", "/", "8", "/", "8", "/", "8",
      "/", "7", "P", "/", "4", "K", "2", "R", " ", "w", " ", "K", "k", " ", "-", " ",
      "0", " ", "1">>

\* "4k3/8/8/3pP3/8/8/8/4K3 w - d6 0 3"
FenStringEnPassant ==
    <<"4", "k", "3", "/", "8", "/", "8", "/", "3", "p", "P", "3", "/", "8", "/", "8",
      "/", "8", "/", "4", "K", "3", " ", "w", " ", "-", " ", "d", "6", " ", "0", " ",
      "3">>

\* "invalid fen string"
FenStringThreeFields ==
    <<"i", "n", "v", "a", "l", "i", "d", " ", "f", "e", "n", " ", "s", "t", "r", "i",
      "n", "g">>

\* "8/8/8/8/8/8/8/8 w"
FenStringTwoFields ==
    <<"8", "/", "8", "/", "8", "/", "8", "/", "8", "/", "8", "/", "8", "/", "8", " ",
      "w">>

\* "4k3/8/8/8/8/8/8/4K2 w - - 0 1"
FenStringShortRank ==
    <<"4", "k", "3", "/", "8", "/", "8", "/", "8", "/", "8", "/", "8", "/", "8", "/",
      "4", "K", "2", " ", "w", " ", "-", " ", "-", " ", "0", " ", "1">>

\* "4k3/8/8/8/8/8/4K3 w - - 0 1"
FenStringSevenRanks ==
    <<"4", "k", "3", "/", "8", "/", "8", "/", "8", "/", "8", "/", "8", "/", "4", "K",
      "3", " ", "w", " ", "-", " ", "-", " ", "0", " ", "1">>

\* "4k3/8/8/8/8/8/8/4X3 w - - 0 1"
FenStringBadPiece ==
    <<"4", "k", "3", "/", "8", "/", "8", "/", "8", "/", "8", "/", "8", "/", "8", "/",
      "4", "X", "3", " ", "w", " ", "-", " ", "-", " ", "0", " ", "1">>

\* "4k3/8/8/8/8/8/8/4K3 x - - 0 1"
FenStringBadColor ==
    <<"4", "k", "3", "/", "8", "/", "8", "/", "8", "/", "8", "/", "8", "/", "8", "/",
      "4", "K", "3", " ", "x", " ", "-", " ", "-", " ", "0", " ", "1">>

\* "4k3/8/8/8/8/8/8/4K3 w KX - 0 1"
FenStringBadCastling ==
    <<"4", "k", "3", "/", "8", "/", "8", "/", "8", "/", "8", "/", "8", "/", "8", "/",
      "4", "K", "3", " ", "w", " ", "K", "X", " ", "-", " ", "0", " ", "1">>

\* "4k3/8/8/8/8/8/8/4K3 w - e4 0 1"
FenStringBadEnPassant ==
    <<"4", "k", "3", "/", "8", "/", "8", "/", "8", "/", "8", "/", "8", "/", "8", "/",
      "4", "K", "3", " ", "w", " ", "-", " ", "e", "4", " ", "0", " ", "1">>

\* "4k3/8/8/8/8/8/8/4K3 w - - -1 1"
FenStringNegativeHalfmove ==
    <<"4", "k", "3", "/", "8", "/", "8", "/", "8", "/", "8", "/", "8", "/", "8", "/",
      "4", "K", "3", " ", "w", " ", "-", " ", "-", " ", "-", "1", " ", "1">>

\* "4k3/8/8/8/8/8/8/4K3 w - - 0 0"
FenStringZeroFullmove ==
    <<"4", "k", "3", "/", "8", "/", "8", "/", "8", "/", "8", "/", "8", "/", "8", "/",
      "4", "K", "3", " ", "w", " ", "-", " ", "-", " ", "0", " ", "0">>

\* "rnbqkbnr/pppppppp/8/8/8/8/PPPPPPPP/RNBQKBNR w KQkq - 0 1"
STARTING_FEN ==
    <<"r", "n", "b", "q", "k", "b", "n", "r", "/", "p", "p", "p", "p", "p", "p", "p",
      "p", "/", "8", "/", "8", "/", "8", "/", "8", "/", "P", "P", "P", "P", "P", "P",
      "P", "P", "/", "R", "N", "B", "Q", "K", "B", "N", "R", " ", "w", " ", "K", "Q",
      "k", "q", " ", "-", " ", "0", " ", "1">>

\* "4k3/8/8/8/3pP3/8/8/4K3 b - e3 0 1"
FenStringEnPassantBlack ==
    <<"4", "k", "3", "/", "8", "/", "8", "/", "8", "/", "3", "p", "P", "3", "/", "8",
      "/", "8", "/", "4", "K", "3", " ", "b", " ", "-", " ", "e", "3", " ", "0", " ",
      "1">>

\* "4k3/8/8/8/3pP21/8/44/4K3  b - e3 00 01"
FenStringEnPassantBlackLoose ==
    <<"4", "k", "3", "/", "8", "/", "8", "/", "8", "/", "3", "p", "P", "2", "1", "/",
      "8", "/", "4", "4", "/", "4", "K", "3", " ", " ", "b", " ", "-", " ", "e", "3",
      " ", "0", "0", " ", "0", "1">>

\* "4k2r/8/6N1/8/8/8/7P/4K2R w kKk - +0 1"
FenStringKingsideLoose ==
    <<"4", "k", "2", "r", "/", "8", "/", "6", "N", "1", "/", "8", "/", "8", "/", "8",
      "/", "7", "P", "/", "4", "K", "2", "R", " ", "w", " ", "k", "K", "k", " ", "-",
      " ", "+", "0", " ", "1">>

\* The strings typed into the FEN dialog: positions, two of them not written the way
\* the generator writes them, and strings that are wrong in the number of fields and in
\* each field.
FenStrings ==
    {FenStringKingside, FenStringEnPassant, FenStringEnPassantBlackLoose,
     FenStringKingsideLoose, FenStringThreeFields, FenStringTwoFields,
     FenStringShortRank, FenStringSevenRanks, FenStringBadPiece, FenStringBadColor,
     FenStringBadCastling, FenStringBadEnPassant, FenStringNegativeHalfmove,
     FenStringZeroFullmove}

\* ------------------------------------------------------------------ FEN generation

\* str(n) for a number that is not negative.
RECURSIVE str(_)
str(n) ==
    IF n < 10
    THEN <<CHOOSE char \in Digits : digit_value(char) = n>>
    ELSE str(n \div 10) \o <<CHOOSE char \in Digits : digit_value(char) = n % 10>>

PIECE_CHARS(piece_type, color) ==
    CHOOSE char \in DOMAIN PIECE_MAP : PIECE_MAP[char] = <<piece_type, color>>

\* The loop of _generate_piece_placement over the files of one rank, from a file on,
\* with the count of empty squares carried so far.
RECURSIVE _generate_rank(_, _, _, _)
_generate_rank(board, rank, file, empty_count) ==
    IF file = 8
    THEN IF empty_count > 0 THEN str(empty_count) ELSE << >>
    ELSE LET piece == get_piece(board, <<file, rank>>)
         IN IF piece = None
            THEN _generate_rank(board, rank, file + 1, empty_count + 1)
            ELSE (IF empty_count > 0 THEN str(empty_count) ELSE << >>)
                    \o <<PIECE_CHARS(piece.piece_type, piece.color)>>
                    \o _generate_rank(board, rank, file + 1, 0)

\* "/".join(ranks), rank 8 first.
RECURSIVE _join_ranks(_, _)
_join_ranks(board, rank) ==
    IF rank = 0
    THEN _generate_rank(board, 0, 0, 0)
    ELSE _generate_rank(board, rank, 0, 0) \o <<"/">> \o _join_ranks(board, rank - 1)

_generate_piece_placement(board) == _join_ranks(board, 7)

_generate_active_color(game_state) ==
    IF game_state.current_turn = "WHITE" THEN <<"w">> ELSE <<"b">>

_generate_castling(game_state) ==
    LET rights == game_state.castling_rights
        castling == (IF rights.white_kingside THEN <<"K">> ELSE << >>)
                       \o (IF rights.white_queenside THEN <<"Q">> ELSE << >>)
                       \o (IF rights.black_kingside THEN <<"k">> ELSE << >>)
                       \o (IF rights.black_queenside THEN <<"q">> ELSE << >>)
    IN IF castling # << >> THEN castling ELSE <<"-">>

\* A generator that writes the rank the pawn stands on instead of the landing square.
_generate_en_passant_pawn_square(game_state) ==
    LET target == current_en_passant_target(game_state)
    IN IF target = NoSquare
       THEN <<"-">>
       ELSE <<(<<"a", "b", "c", "d", "e", "f", "g", "h">>)[target[1] + 1]>>
               \o str(target[2] + 1)

\* The stored target is the pawn's square; the field written is the landing square.
_generate_en_passant(game_state) ==
    LET target == current_en_passant_target(game_state)
    IN IF target = NoSquare
       THEN <<"-">>
       ELSE <<(<<"a", "b", "c", "d", "e", "f", "g", "h">>)[target[1] + 1],
              IF target[2] = 3 THEN "3" ELSE "6">>

FENGenerator_generate(board, game_state) ==
    _generate_piece_placement(board) \o <<" ">>
        \o _generate_active_color(game_state) \o <<" ">>
        \o _generate_castling(game_state) \o <<" ">>
        \o _generate_en_passant(game_state) \o <<" ">>
        \o str(game_state.halfmove_clock) \o <<" ">>
        \o str(game_state.fullmove_number)

\* ------------------------------------------------------------------ PGN documents

\* A PGN document is the sequence of its non-blank lines: a tag pair with its name and
\* value, or a line of movetext with its move tokens.
TagLine(tag_name, value) == [tag_name |-> tag_name, value |-> value, movetext |-> << >>]

MovetextLine(tokens) == [tag_name |-> "", value |-> << >>, movetext |-> tokens]

\* PGNData: the fields the loader is concerned with. fen is empty when no FEN tag was
\* given.
PGNData(fen, moves) == [fen |-> fen, moves |-> moves]

\* PGNParser.parse raises PGNError: the string is empty or blank.
PGNParser_parse_raises(pgn_string) == pgn_string = << >>

\* PGNParser.parse: line by line, a FEN tag sets fen, movetext adds to the moves.
RECURSIVE PGNParser_parse(_)
PGNParser_parse(pgn_string) ==
    IF pgn_string = << >>
    THEN PGNData(<< >>, << >>)
    ELSE LET data == PGNParser_parse(SubSeq(pgn_string, 1, Len(pgn_string) - 1))
             line == pgn_string[Len(pgn_string)]
         IN IF line.tag_name = "FEN"
            THEN PGNData(line.value, data.moves)
            ELSE PGNData(data.fen, data.moves \o line.movetext)

\* PGNLoader.load_from_data: the starting position is loaded onto the board and the game
\* state, from the FEN tag or the standard one; a FEN tag that does not parse is raised
\* as PGNError. The loop over the moves then reads pgn_data.san_moves, an attribute
\* PGNData does not have: the call ends there with AttributeError, the position loaded.
PGNLoader_load_from_data(board, game_state, pgn_data) ==
    LET start == FENLoader_load(board, game_state,
                                IF pgn_data.fen # << >> THEN pgn_data.fen ELSE STARTING_FEN)
    IN IF start.raised = "FENError"
       THEN Outcome(start.board, start.game_state, "PGNError", NoMove)
       ELSE IF "san_moves" \notin DOMAIN pgn_data
       THEN Outcome(start.board, start.game_state, "AttributeError", NoMove)
       ELSE Outcome(start.board, start.game_state, "None", NoMove)

PGNLoader_load(board, game_state, pgn_string) ==
    IF PGNParser_parse_raises(pgn_string)
    THEN Outcome(board, game_state, "PGNError", NoMove)
    ELSE PGNLoader_load_from_data(board, game_state, PGNParser_parse(pgn_string))

\* The documents pasted into the PGN dialog: an empty one, the knight move no knight
\* can make, a king move that is illegal as the third move, a FEN tag that does not
\* parse, and a game from a given position.
PgnDocuments ==
    {<< >>,
     <<MovetextLine(<<"Ne5">>)>>,
     <<MovetextLine(<<"e4", "e5">>), MovetextLine(<<"Ke3">>)>>,
     <<TagLine("FEN", FenStringThreeFields), MovetextLine(<<"e4">>)>>,
     <<TagLine("Event", << >>), TagLine("FEN", FenStringKingside),
       MovetextLine(<<"O-O", "Qh4">>)>>}

\* ------------------------------------------------------------------ notation

file_to_letter(file) == (<<"a", "b", "c", "d", "e", "f", "g", "h">>)[file + 1]

rank_to_number(rank) == str(rank + 1)

PIECE_LETTERS(piece_type) ==
    CASE piece_type = "KING" -> <<"K">>
      [] piece_type = "QUEEN" -> <<"Q">>
      [] piece_type = "ROOK" -> <<"R">>
      [] piece_type = "BISHOP" -> <<"B">>
      [] piece_type = "KNIGHT" -> <<"N">>
      [] piece_type = "PAWN" -> << >>

\* What a generation of notation gives: the text, or the exception raised; the castling
\* rights object of the caller's game state as the call leaves it.
Notation(raised, san, castling_rights) ==
    [raised |-> raised, san |-> san, castling_rights |-> castling_rights]

\* The Move a caller hands to move_to_san for a move from one square to another: the
\* record execute_move prepares for that move, before the board is touched.
move_to_describe(board, game_state, from_square, to_square) ==
    LET piece == get_piece(board, from_square)
    IN Move(IF _is_castling_move(piece, from_square, to_square)
            THEN _prepare_castling_move(piece, from_square, to_square)
            ELSE IF _is_en_passant_move(game_state, piece, to_square)
            THEN _prepare_en_passant_move(board, game_state, piece, from_square, to_square)
            ELSE _prepare_normal_move(board, piece, from_square, to_square))

_get_castling_notation(move) ==
    IF move.to_square[1] = 6 THEN <<"O", "-", "O">> ELSE <<"O", "-", "O", "-", "O">>

\* The other pieces of the moved piece's kind and color.
_same_kind_squares(move, board) ==
    {sq \in Squares : /\ get_piece(board, sq) # None
                      /\ get_piece(board, sq).piece_type = move.piece.piece_type
                      /\ get_piece(board, sq).color = move.piece.color
                      /\ sq # move.from_square}

_get_disambiguation_raises(move, board, game_state) ==
    /\ move.piece.piece_type # "PAWN"
    /\ \E sq \in _same_kind_squares(move, board) :
          get_legal_moves_raises(board, get_piece(board, sq), game_state)

_get_disambiguation(move, board, game_state) ==
    LET ambiguous_pieces ==
            {sq \in _same_kind_squares(move, board) :
                move.to_square \in get_legal_moves(board, get_piece(board, sq), game_state)}
        from_file == move.from_square[1]
        from_rank == move.from_square[2]
    IN IF move.piece.piece_type = "PAWN" \/ ambiguous_pieces = {}
       THEN << >>
       ELSE IF ~\E p \in ambiguous_pieces : p[1] = from_file
       THEN <<file_to_letter(from_file)>>
       ELSE IF ~\E p \in ambiguous_pieces : p[2] = from_rank
       THEN rank_to_number(from_rank)
       ELSE <<file_to_letter(from_file)>> \o rank_to_number(from_rank)

_get_capture_notation(move) == IF move.captured_piece # None THEN <<"x">> ELSE << >>

_square_to_algebraic(square) == <<file_to_letter(square[1])>> \o rank_to_number(square[2])

\* move.is_promotion is read from an object that has no such attribute.
_get_promotion_notation_raises(move) == "is_promotion" \notin DOMAIN move

_get_promotion_notation(move) ==
    IF ~move.is_promotion \/ move.promoted_to = None
    THEN << >>
    ELSE <<"=">> \o PIECE_LETTERS(move.promoted_to.piece_type)

\* get_all_legal_moves: the pieces of a color that have a legal move.
get_all_legal_moves(board, color, game_state) ==
    {sq \in Squares : /\ get_piece(board, sq) # None
                      /\ get_piece(board, sq).color = color
                      /\ get_legal_moves(board, get_piece(board, sq), game_state) # {}}

get_all_legal_moves_raises(board, color, game_state) ==
    \E sq \in Squares : /\ get_piece(board, sq) # None
                        /\ get_piece(board, sq).color = color
                        /\ get_legal_moves_raises(board, get_piece(board, sq), game_state)

\* The game state _get_check_indicator executes the move on: a fresh one with the
\* caller's turn and the caller's castling rights object.
_test_state(game_state) ==
    [move_history |-> << >>,
     redo_history |-> << >>,
     current_turn |-> game_state.current_turn,
     castling_rights |-> game_state.castling_rights,
     halfmove_clock |-> 0,
     fullmove_number |-> 1,
     initial_en_passant_target |-> NoSquare]

\* A check indicator that takes a move without the promotion attributes as no promotion.
_get_check_indicator_lenient(move, board, game_state) ==
    LET executed == execute_move(board, _test_state(game_state),
                                 move.from_square, move.to_square, "None")
        opponent_color == opponent(move.piece.color)
        rights == executed.game_state.castling_rights
    IN IF executed.raised # "None"
       THEN Notation(executed.raised, << >>, rights)
       ELSE IF ~is_in_check(executed.board, opponent_color)
       THEN Notation("None", << >>, rights)
       ELSE IF get_all_legal_moves_raises(executed.board, opponent_color,
                                          executed.game_state)
       THEN Notation("ValueError: Invalid game state", << >>, rights)
       ELSE Notation("None",
                     IF get_all_legal_moves(executed.board, opponent_color,
                                            executed.game_state) = {}
                     THEN <<"#">> ELSE <<"+">>,
                     rights)

\* The move is executed on a copy of the board and on the test state, whose castling
\* rights are the caller's object: what execute_move does to them shows in the caller's
\* game state. The promotion kind is read from the move before that.
_get_check_indicator(move, board, game_state) ==
    IF "is_promotion" \notin DOMAIN move
    THEN Notation("AttributeError", << >>, game_state.castling_rights)
    ELSE LET promotion_type ==
                 IF move.is_promotion /\ move.promoted_to # None
                 THEN move.promoted_to.piece_type
                 ELSE "None"
             executed == execute_move(board, _test_state(game_state),
                                      move.from_square, move.to_square, promotion_type)
             opponent_color == opponent(move.piece.color)
             rights == executed.game_state.castling_rights
         IN IF executed.raised # "None"
            THEN Notation(executed.raised, << >>, rights)
            ELSE IF ~is_in_check(executed.board, opponent_color)
            THEN Notation("None", << >>, rights)
            ELSE IF get_all_legal_moves_raises(executed.board, opponent_color,
                                               executed.game_state)
            THEN Notation("ValueError: Invalid game state", << >>, rights)
            ELSE Notation("None",
                          IF get_all_legal_moves(executed.board, opponent_color,
                                                 executed.game_state) = {}
                          THEN <<"#">> ELSE <<"+">>,
                          rights)

move_to_san(move, board, game_state, include_check) ==
    IF move.is_castling
    THEN Notation("None", _get_castling_notation(move), game_state.castling_rights)
    ELSE IF _get_disambiguation_raises(move, board, game_state)
    THEN Notation("ValueError: Invalid game state", << >>, game_state.castling_rights)
    ELSE IF _get_promotion_notation_raises(move)
    THEN Notation("AttributeError", << >>, game_state.castling_rights)
    ELSE LET san ==
                 IF move.piece.piece_type = "PAWN"
                 THEN (IF move.captured_piece # None
                       THEN <<file_to_letter(move.from_square[1])>>
                               \o _get_capture_notation(move)
                               \o _square_to_algebraic(move.to_square)
                       ELSE _square_to_algebraic(move.to_square))
                          \o _get_promotion_notation(move)
                 ELSE PIECE_LETTERS(move.piece.piece_type)
                          \o _get_disambiguation(move, board, game_state)
                          \o _get_capture_notation(move)
                          \o _square_to_algebraic(move.to_square)
             check_indicator == _get_check_indicator(move, board, game_state)
         IN IF ~include_check
            THEN Notation("None", san, game_state.castling_rights)
            ELSE IF check_indicator.raised # "None"
            THEN Notation(check_indicator.raised, << >>, check_indicator.castling_rights)
            ELSE Notation("None", san \o check_indicator.san,
                          check_indicator.castling_rights)

\* ------------------------------------------------------------------ SAN resolution

PIECE_TYPE_MAP ==
    [letter \in {"K", "Q", "R", "B", "N"} |->
        CASE letter = "K" -> "KING" [] letter = "Q" -> "QUEEN" [] letter = "R" -> "ROOK"
          [] letter = "B" -> "BISHOP" [] letter = "N" -> "KNIGHT"]

FileLetters == {"a", "b", "c", "d", "e", "f", "g", "h"}

RankDigits == {"1", "2", "3", "4", "5", "6", "7", "8"}

\* san.rstrip("+#")
RECURSIVE rstrip_check(_)
rstrip_check(san) ==
    IF san # << >> /\ san[Len(san)] \in {"+", "#"}
    THEN rstrip_check(SubSeq(san, 1, Len(san) - 1))
    ELSE san

\* The groups of SAN_PATTERN in a text: the promotion letter after "=", the two
\* characters of the destination before it, and in front of them the optional piece
\* letter, file, rank and "x", in this order.
_san_promo(clean_san) ==
    IF /\ Len(clean_san) >= 2
       /\ clean_san[Len(clean_san) - 1] = "="
       /\ clean_san[Len(clean_san)] \in {"Q", "R", "B", "N"}
    THEN <<clean_san[Len(clean_san)]>>
    ELSE << >>

_san_body(clean_san) ==
    IF _san_promo(clean_san) # << >>
    THEN SubSeq(clean_san, 1, Len(clean_san) - 2)
    ELSE clean_san

_san_prefix(clean_san) == SubSeq(_san_body(clean_san), 1, Len(_san_body(clean_san)) - 2)

_san_groups(clean_san) ==
    {groups \in ({<< >>} \cup {<<c>> : c \in DOMAIN PIECE_TYPE_MAP})
                   \X ({<< >>} \cup {<<c>> : c \in FileLetters})
                   \X ({<< >>} \cup {<<c>> : c \in RankDigits})
                   \X {<< >>, <<"x">>} :
        groups[1] \o groups[2] \o groups[3] \o groups[4] = _san_prefix(clean_san)}

\* _parse_san raises PGNError: the text does not match SAN_PATTERN.
_parse_san_raises(san) ==
    LET clean_san == rstrip_check(san)
        body == _san_body(clean_san)
    IN \/ Len(body) < 2
       \/ body[Len(body) - 1] \notin FileLetters
       \/ body[Len(body)] \notin RankDigits
       \/ _san_groups(clean_san) = {}

_parse_san(san) ==
    LET clean_san == rstrip_check(san)
        body == _san_body(clean_san)
        groups == CHOOSE groups \in _san_groups(clean_san) : TRUE
        promo == _san_promo(clean_san)
    IN [piece_type |-> IF groups[1] # << >> THEN PIECE_TYPE_MAP[groups[1][1]] ELSE "PAWN",
        from_file |-> IF groups[2] # << >>
                      THEN CHOOSE file \in 0..7 : file_to_letter(file) = groups[2][1]
                      ELSE -1,
        from_rank |-> IF groups[3] # << >> THEN digit_value(groups[3][1]) - 1 ELSE -1,
        is_capture |-> groups[4] # << >>,
        to_square |-> <<CHOOSE file \in 0..7 : file_to_letter(file) = body[Len(body) - 1],
                        digit_value(body[Len(body)]) - 1>>,
        promotion |-> IF promo # << >> THEN PIECE_TYPE_MAP[promo[1]] ELSE "None"]

\* The pieces _find_source_square asks for their legal moves: of the kind named, of the
\* side to move, on the file and rank named if any.
_source_squares(board, game_state, parsed) ==
    {sq \in Squares : /\ get_piece(board, sq) # None
                      /\ get_piece(board, sq).piece_type = parsed.piece_type
                      /\ get_piece(board, sq).color = game_state.current_turn
                      /\ parsed.from_file # -1 => sq[1] = parsed.from_file
                      /\ parsed.from_rank # -1 => sq[2] = parsed.from_rank}

_candidates(board, game_state, parsed) ==
    {sq \in _source_squares(board, game_state, parsed) :
        parsed.to_square \in get_legal_moves(board, get_piece(board, sq), game_state)}

\* What a SAN text resolves to: the call handed to execute_move, or the exception.
Resolved(raised, from_square, to_square, promotion) ==
    [raised |-> raised, from_square |-> from_square, to_square |-> to_square,
     promotion |-> promotion]

_find_source_square(board, game_state, parsed) ==
    IF \E sq \in _source_squares(board, game_state, parsed) :
           get_legal_moves_raises(board, get_piece(board, sq), game_state)
    THEN Resolved("ValueError: Invalid game state", NoSquare, NoSquare, "None")
    ELSE IF Cardinality(_candidates(board, game_state, parsed)) # 1
    THEN Resolved("PGNError", NoSquare, NoSquare, "None")
    ELSE Resolved("None", CHOOSE sq \in _candidates(board, game_state, parsed) : TRUE,
                  parsed.to_square, parsed.promotion)

_execute_castling(board, game_state, san) ==
    LET rank == IF game_state.current_turn = "WHITE" THEN 0 ELSE 7
        from_square == <<4, rank>>
        is_kingside == san \in {<<"O", "-", "O">>, <<"0", "-", "0">>}
        to_square == <<IF is_kingside THEN 6 ELSE 2, rank>>
        king == get_piece(board, from_square)
    IN IF king = None \/ king.piece_type # "KING"
       THEN Resolved("PGNError", NoSquare, NoSquare, "None")
       ELSE IF get_legal_moves_raises(board, king, game_state)
       THEN Resolved("ValueError: Invalid game state", NoSquare, NoSquare, "None")
       ELSE IF to_square \notin get_legal_moves(board, king, game_state)
       THEN Resolved("PGNError", NoSquare, NoSquare, "None")
       ELSE Resolved("None", from_square, to_square, "None")

\* _execute_san_move up to its call of execute_move.
_resolve_san_move(board, game_state, san) ==
    IF rstrip_check(san) \in {<<"O", "-", "O">>, <<"O", "-", "O", "-", "O">>,
                              <<"0", "-", "0">>, <<"0", "-", "0", "-", "0">>}
    THEN _execute_castling(board, game_state, rstrip_check(san))
    ELSE IF _parse_san_raises(san)
    THEN Resolved("PGNError", NoSquare, NoSquare, "None")
    ELSE _find_source_square(board, game_state, _parse_san(san))

\* ------------------------------------------------------------------ opening trie

BOOK_MOVE == "Book Move"

\* variation_name is "None" for an opening without a variation.
Opening(opening_name, variation_name) ==
    [opening_name |-> opening_name, variation_name |-> variation_name]

NoOpening == Opening("None", "None")

TrieNode(children, openings) == [children |-> children, openings |-> openings]

\* The trie is the map from a node's path of SAN tokens to the node: its children by
\* token and the openings passing through it. The root is the node of the empty path.
EmptyTrie == (<< >> :> TrieNode({}, {}))

\* A step of insert after which the child holds the inserted opening alone.
_insert_step_replaces(trie, path, san, opening) ==
    LET with_child == IF san \in trie[path].children
                      THEN trie
                      ELSE [trie EXCEPT ![path].children = @ \cup {san}]
                               @@ (Append(path, san) :> TrieNode({}, {}))
    IN [with_child EXCEPT ![Append(path, san)].openings = {opening}]

\* One step of the loop of insert: the child is created if it is not there, and the
\* opening is added to it.
_insert_step(trie, path, san, opening) ==
    LET with_child == IF san \in trie[path].children
                      THEN trie
                      ELSE [trie EXCEPT ![path].children = @ \cup {san}]
                               @@ (Append(path, san) :> TrieNode({}, {}))
    IN [with_child EXCEPT ![Append(path, san)].openings = @ \cup {opening}]

RECURSIVE _insert_from(_, _, _, _)

\* A loop of insert that adds the opening to the node it stands on before it
\* steps to the child, the root included.
RECURSIVE _insert_from_root_too(_, _, _, _)
_insert_from_root_too(trie, path, san_moves, opening) ==
    IF san_moves = << >>
    THEN trie
    ELSE _insert_from_root_too(
             _insert_step([trie EXCEPT ![path].openings = @ \cup {opening}],
                          path, Head(san_moves), opening),
             Append(path, Head(san_moves)), Tail(san_moves), opening)

_insert_from(trie, path, san_moves, opening) ==
    IF san_moves = << >>
    THEN trie
    ELSE _insert_from(_insert_step(trie, path, Head(san_moves), opening),
                      Append(path, Head(san_moves)), Tail(san_moves), opening)

\* An insert that creates the nodes of the path and adds the opening to the last one
\* only.
RECURSIVE _insert_last_only_from(_, _, _, _)
_insert_last_only_from(trie, path, san_moves, opening) ==
    IF san_moves = << >>
    THEN trie
    ELSE _insert_last_only_from(
             IF Len(san_moves) = 1
             THEN _insert_step(trie, path, Head(san_moves), opening)
             ELSE IF Head(san_moves) \in trie[path].children
             THEN trie
             ELSE [trie EXCEPT ![path].children = @ \cup {Head(san_moves)}]
                      @@ (Append(path, Head(san_moves)) :> TrieNode({}, {})),
             Append(path, Head(san_moves)), Tail(san_moves), opening)

insert_last_only(trie, san_moves, opening_name, variation_name) ==
    _insert_last_only_from(trie, << >>, san_moves, Opening(opening_name, variation_name))

insert(trie, san_moves, opening_name, variation_name) ==
    _insert_from(trie, << >>, san_moves, Opening(opening_name, variation_name))

\* The walk of lookup from the root: the path of the node reached, or no node.
RECURSIVE _walk(_, _, _)
_walk(trie, path, san_moves) ==
    IF san_moves = << >>
    THEN [found |-> TRUE, path |-> path]
    ELSE IF Head(san_moves) \notin trie[path].children
    THEN [found |-> FALSE, path |-> path]
    ELSE _walk(trie, Append(path, Head(san_moves)), Tail(san_moves))

\* What lookup and get_continuations make of a node's set of openings.
_rolled_up(openings) ==
    LET unique_names == {o.opening_name : o \in openings}
        variations == {o.variation_name : o \in openings}
    IN IF openings = {}
       THEN NoOpening
       ELSE IF Cardinality(unique_names) > 1
       THEN Opening(BOOK_MOVE, "None")
       ELSE IF Cardinality(variations) = 1
       THEN Opening(CHOOSE name \in unique_names : TRUE,
                    CHOOSE variation \in variations : TRUE)
       ELSE Opening(CHOOSE name \in unique_names : TRUE, "None")

\* A lookup that answers Book Move as soon as the node holds more than one entry.
lookup_counts_entries(trie, san_moves) ==
    LET walked == _walk(trie, << >>, san_moves)
    IN IF ~walked.found
       THEN NoOpening
       ELSE IF Cardinality(trie[walked.path].openings) > 1
       THEN Opening(BOOK_MOVE, "None")
       ELSE _rolled_up(trie[walked.path].openings)

lookup(trie, san_moves) ==
    LET walked == _walk(trie, << >>, san_moves)
    IN IF ~walked.found
       THEN NoOpening
       ELSE _rolled_up(trie[walked.path].openings)

\* The opening get_continuations pairs with a child, from the child's set of openings.
_continuation_opening(child_openings) ==
    IF child_openings = {}
    THEN NoOpening
    ELSE LET unique_names == {o.opening_name : o \in child_openings}
         IN IF Cardinality(unique_names) > 1
            THEN Opening(BOOK_MOVE, "None")
            ELSE LET opening_name == CHOOSE name \in unique_names : TRUE
                     variations == {o.variation_name : o \in child_openings}
                 IN IF Cardinality(variations) = 1
                    THEN Opening(opening_name, CHOOSE variation \in variations : TRUE)
                    ELSE Opening(opening_name, "None")

\* Continuations that pair every child with the opening of the node itself.
get_continuations_of_parent(trie, san_moves) ==
    LET walked == _walk(trie, << >>, san_moves)
    IN IF ~walked.found
       THEN {}
       ELSE {<<san, _continuation_opening(trie[walked.path].openings)>> :
                 san \in trie[walked.path].children}

\* The pairs (san, opening) get_continuations returns, as a set; the opening is
\* NoOpening where the code pairs the move with None.
get_continuations(trie, san_moves) ==
    LET walked == _walk(trie, << >>, san_moves)
    IN IF ~walked.found
       THEN {}
       ELSE {<<san, _continuation_opening(trie[Append(walked.path, san)].openings)>> :
                 san \in trie[walked.path].children}

\* The catalog rows from_csv reads: lines of SAN tokens, opening names and variations.
CatalogLines ==
    {<<"e4">>, <<"e4", "e5">>, <<"e4", "c5">>, <<"e4", "c5", "Nf3">>, <<"d4", "d5">>}

CatalogNames == {"Italian Game", "Sicilian Defense"}

CatalogVariations == {"None", "Dragon Variation", "Najdorf Variation"}

\* The number of catalog rows read.
MaxRows == 3

\* The number of pieces set on an empty board.
MaxPieces == 2

\* ------------------------------------------------------------------ state machine

VARIABLES
    board,                      \* Board._grid
    move_history,               \* GameState.move_history
    redo_history,               \* GameState.redo_history
    current_turn,               \* GameState.current_turn
    castling_rights,            \* GameState.castling_rights
    halfmove_clock,             \* GameState.halfmove_clock
    fullmove_number,            \* GameState.fullmove_number
    initial_en_passant_target,  \* GameState._initial_en_passant_target
    loaded,                     \* the FEN data the position was loaded from
    raised,                     \* the exception the last call raised, "None" if it returned
    opening_trie,               \* OpeningTrie._root and the nodes under it
    rows_read                   \* the rows of the catalog from_csv has read

vars == <<board, move_history, redo_history, current_turn, castling_rights,
          halfmove_clock, fullmove_number, initial_en_passant_target,
          loaded, raised, opening_trie, rows_read>>

GameState ==
    [move_history |-> move_history,
     redo_history |-> redo_history,
     current_turn |-> current_turn,
     castling_rights |-> castling_rights,
     halfmove_clock |-> halfmove_clock,
     fullmove_number |-> fullmove_number,
     initial_en_passant_target |-> initial_en_passant_target]

Init ==
    \E fen_data \in StartPositions :
        /\ board = place_pieces(EmptyBoard, fen_data.pieces)
        /\ move_history = GameState_load_from_fen_data(fen_data).move_history
        /\ redo_history = GameState_load_from_fen_data(fen_data).redo_history
        /\ current_turn = GameState_load_from_fen_data(fen_data).current_turn
        /\ castling_rights = GameState_load_from_fen_data(fen_data).castling_rights
        /\ halfmove_clock = GameState_load_from_fen_data(fen_data).halfmove_clock
        /\ fullmove_number = GameState_load_from_fen_data(fen_data).fullmove_number
        /\ initial_en_passant_target =
               GameState_load_from_fen_data(fen_data).initial_en_passant_target
        /\ loaded = fen_data
        /\ raised = "None"
        /\ opening_trie = EmptyTrie
        /\ rows_read = 0

\* The call returns or raises, leaving the board and game state of its outcome. An
\* exception is not caught by the caller: the session ends there.
Returns(outcome) ==
    /\ board' = outcome.board
    /\ move_history' = outcome.game_state.move_history
    /\ redo_history' = outcome.game_state.redo_history
    /\ current_turn' = outcome.game_state.current_turn
    /\ castling_rights' = outcome.game_state.castling_rights
    /\ halfmove_clock' = outcome.game_state.halfmove_clock
    /\ fullmove_number' = outcome.game_state.fullmove_number
    /\ initial_en_passant_target' = outcome.game_state.initial_en_passant_target
    /\ raised' = outcome.raised
    /\ UNCHANGED <<loaded, opening_trie, rows_read>>

\* A load returns or raises, leaving the board and game state of its outcome; the
\* position it loaded becomes the one the game started from.
Loads(outcome, fen_data) ==
    /\ board' = outcome.board
    /\ move_history' = outcome.game_state.move_history
    /\ redo_history' = outcome.game_state.redo_history
    /\ current_turn' = outcome.game_state.current_turn
    /\ castling_rights' = outcome.game_state.castling_rights
    /\ halfmove_clock' = outcome.game_state.halfmove_clock
    /\ fullmove_number' = outcome.game_state.fullmove_number
    /\ initial_en_passant_target' = outcome.game_state.initial_en_passant_target
    /\ raised' = outcome.raised
    /\ loaded' = fen_data
    /\ UNCHANGED <<opening_trie, rows_read>>

\* The squares holding a piece of the side to move.
OwnSquares(a_board, game_state) ==
    {sq \in Squares : a_board[sq] # None /\ a_board[sq].color = game_state.current_turn}

\* The promotion kinds the caller passes for a move: the promotion dialog's choice
\* when is_promotion_move says so, none otherwise.
PromotionChoices(a_board, from_square, to_square) ==
    IF is_promotion_move(a_board, from_square, to_square)
    THEN PromotionTypes
    ELSE {"None"}

\* A piece of the side to move is selected: get_legal_moves is asked for its moves.
GetLegalMoves ==
    /\ raised = "None"
    /\ \E sq \in OwnSquares(board, GameState) :
          Returns(Outcome(board_after_get_legal_moves(board, board[sq], GameState), GameState,
                          IF get_legal_moves_raises(board, board[sq], GameState)
                          THEN "ValueError: Invalid game state" ELSE "None",
                          NoMove))

\* One of the selected piece's legal moves is executed.
ExecuteMove ==
    /\ raised = "None"
    /\ Len(move_history) < MaxPlies
    /\ \E from_square \in OwnSquares(board, GameState) :
          /\ ~get_legal_moves_raises(board, board[from_square], GameState)
          /\ \E to_square \in get_legal_moves(board, board[from_square], GameState) :
                \E promotion \in PromotionChoices(board, from_square, to_square) :
                    Returns(execute_move(board, GameState, from_square, to_square, promotion))

UndoMove ==
    /\ raised = "None"
    /\ Returns(undo_move(board, GameState))

RedoMove ==
    /\ raised = "None"
    /\ Returns(redo_move(board, GameState))

JumpToHistoryIndex ==
    /\ raised = "None"
    /\ \E target_index \in (-1)..(MaxPlies + 1) :
          Returns(jump_to_history_index(board, GameState, target_index))

\* A string is entered in the FEN dialog: load_fen is called with it. The dialog
\* catches the FENError of a string that does not parse and reports it; the model stops
\* at the state the failed load left.
LoadFen ==
    /\ raised = "None"
    /\ \E fen_string \in FenStrings :
          Loads(FENLoader_load(board, GameState, fen_string),
                IF FENParser_parse_raises(fen_string)
                THEN loaded
                ELSE FENParser_parse(fen_string))

\* A document is entered in the PGN dialog: load_pgn is called with it. The dialog
\* catches PGNError and ValueError and reports them; any other exception ends the
\* session.
LoadPgn ==
    /\ raised = "None"
    /\ \E pgn_string \in PgnDocuments :
          LET load == PGNLoader_load(board, GameState, pgn_string)
              fen == PGNParser_parse(pgn_string).fen
          IN Loads(load,
                   IF load.raised = "PGNError"
                   THEN loaded
                   ELSE FENParser_parse(IF fen # << >> THEN fen ELSE STARTING_FEN))

Next ==
    \/ GetLegalMoves
    \/ ExecuteMove
    \/ UndoMove
    \/ RedoMove
    \/ JumpToHistoryIndex
    \/ LoadFen
    \/ LoadPgn

Spec == Init /\ [][Next]_vars

\* The opening book is built: from_csv reads the catalog row by row into an empty trie.
\* A row of type Opening with a line of moves is inserted.
InsertOpening ==
    /\ rows_read < MaxRows
    /\ \E san_moves \in CatalogLines, opening_name \in CatalogNames,
          variation_name \in CatalogVariations :
          opening_trie' = insert(opening_trie, san_moves, opening_name, variation_name)
    /\ rows_read' = rows_read + 1
    /\ UNCHANGED <<board, move_history, redo_history, current_turn, castling_rights,
                   halfmove_clock, fullmove_number, initial_en_passant_target,
                   loaded, raised>>

\* A row of another type, or one whose movetext holds no move, is skipped.
SkipRow ==
    /\ rows_read < MaxRows
    /\ rows_read' = rows_read + 1
    /\ UNCHANGED <<board, move_history, redo_history, current_turn, castling_rights,
                   halfmove_clock, fullmove_number, initial_en_passant_target,
                   loaded, raised, opening_trie>>

\* The controller builds the opening book on the board and game state as constructed,
\* before a position is loaded.
TrieInit ==
    /\ board = EmptyBoard
    /\ move_history = << >>
    /\ redo_history = << >>
    /\ current_turn = "WHITE"
    /\ castling_rights = CastlingRights(TRUE, TRUE, TRUE, TRUE)
    /\ halfmove_clock = 0
    /\ fullmove_number = 1
    /\ initial_en_passant_target = NoSquare
    /\ loaded = FENData({}, "WHITE", CastlingRights(TRUE, TRUE, TRUE, TRUE), NoSquare, 0, 1)
    /\ raised = "None"
    /\ opening_trie = EmptyTrie
    /\ rows_read = 0

TrieNext ==
    \/ InsertOpening
    \/ SkipRow

TrieSpec == TrieInit /\ [][TrieNext]_vars

\* The squares pieces are set on when boards are built piece by piece; the
\* squares asked about are all sixty-four.
PlacementSquares == (0..2) \X (0..2)

PieceTypes == {"KING", "QUEEN", "ROOK", "BISHOP", "KNIGHT", "PAWN"}

Colors == {"WHITE", "BLACK"}

\* Board.set_piece puts a new piece of any kind and color on an empty square.
PlacePiece ==
    /\ Cardinality({square \in Squares : board[square] # None}) < MaxPieces
    /\ \E square \in PlacementSquares, piece_type \in PieceTypes, color \in Colors :
          /\ board[square] = None
          /\ board' = set_piece(board, square, Piece(color, piece_type, NoSquare))
    /\ UNCHANGED <<move_history, redo_history, current_turn, castling_rights,
                   halfmove_clock, fullmove_number, initial_en_passant_target,
                   loaded, raised, opening_trie, rows_read>>

\* Boards built from the empty board, for the questions asked of any board.
BoardInit == TrieInit

BoardNext == PlacePiece

BoardSpec == BoardInit /\ [][BoardNext]_vars

\* ------------------------------------------------------------------ properties

\* The moves a caller may execute in the current position: origin, destination and
\* promotion kind, as ExecuteMove draws them.
LegalCalls ==
    IF raised # "None"
    THEN {}
    ELSE
    UNION {UNION {{<<from_square, to_square, promotion>> :
                      promotion \in PromotionChoices(board, from_square, to_square)} :
                  to_square \in
                      IF get_legal_moves_raises(board, board[from_square], GameState)
                      THEN {}
                      ELSE get_legal_moves(board, board[from_square], GameState)} :
           from_square \in OwnSquares(board, GameState)}

Executed(call) == execute_move(board, GameState, call[1], call[2], call[3])

Undone(outcome) == undo_move(outcome.board, outcome.game_state)

Redone(outcome) == redo_move(outcome.board, outcome.game_state)

LastMove == move_history[Len(move_history)]

Abs(n) == IF n >= 0 THEN n ELSE -n

\* The rules of chess, piece by piece: the piece on origin attacks target.
RuleAttacks(a_board, origin, target) ==
    LET attacker == a_board[origin]
        df == target[1] - origin[1]
        dr == target[2] - origin[2]
        steps == IF Abs(df) >= Abs(dr) THEN Abs(df) ELSE Abs(dr)
        sf == IF df > 0 THEN 1 ELSE IF df < 0 THEN -1 ELSE 0
        sr == IF dr > 0 THEN 1 ELSE IF dr < 0 THEN -1 ELSE 0
        open_line == \A k \in 1..(steps - 1) :
                         a_board[<<origin[1] + k * sf, origin[2] + k * sr>>] = None
        straight == (df = 0 \/ dr = 0) /\ steps > 0
        diagonal == Abs(df) = Abs(dr) /\ steps > 0
    IN /\ attacker # None
       /\ CASE attacker.piece_type = "KNIGHT" ->
                   <<Abs(df), Abs(dr)>> \in {<<1, 2>>, <<2, 1>>}
            [] attacker.piece_type = "KING" -> steps = 1
            [] attacker.piece_type = "PAWN" ->
                   Abs(df) = 1 /\ dr = (IF attacker.color = "WHITE" THEN 1 ELSE -1)
            [] attacker.piece_type = "ROOK" -> straight /\ open_line
            [] attacker.piece_type = "BISHOP" -> diagonal /\ open_line
            [] attacker.piece_type = "QUEEN" -> (straight \/ diagonal) /\ open_line
            [] OTHER -> FALSE

RuleAttacked(a_board, target, by_color) ==
    \E origin \in Squares :
        /\ a_board[origin] # None
        /\ a_board[origin].color = by_color
        /\ RuleAttacks(a_board, origin, target)

KingSquares(a_board, color) ==
    {sq \in Squares : a_board[sq] # None /\ a_board[sq].color = color
                      /\ a_board[sq].piece_type = "KING"}

\* What GameState reports besides its two histories.
Reported(game_state) ==
    [current_turn |-> game_state.current_turn,
     castling_rights |-> game_state.castling_rights,
     en_passant_target |-> current_en_passant_target(game_state),
     halfmove_clock |-> game_state.halfmove_clock,
     fullmove_number |-> game_state.fullmove_number]

\* C1: for every legal move of a reachable position, execute followed by undo leaves
\* the board and the reported game state (turn, the four castling rights, en passant
\* target, halfmove clock, fullmove number) as they were before the execute.
C1_ExecuteUndoRestoresAll ==
    \A call \in LegalCalls :
        LET executed == Executed(call)
            undone == Undone(executed)
        IN executed.raised = "None" =>
              /\ undone.board = board
              /\ Reported(undone.game_state) = Reported(GameState)

\* C2: after executing any destination get_legal_moves returns for a piece of the
\* side to move, the mover's own king is attacked by no enemy piece.
C2_LegalMoveKeepsOwnKingSafe ==
    \A call \in LegalCalls :
        LET after == Executed(call).board
        IN \A king \in KingSquares(after, current_turn) :
              ~RuleAttacked(after, king, opponent(current_turn))

\* C2 witness: a castling move or an en passant capture has just been executed, the
\* mover's king is not attacked, and in the position reached some pseudo-legal move is
\* refused because it would expose the king.
C2_Witness ==
    /\ raised = "None"
    /\ move_history # << >>
    /\ (LastMove.is_castling \/ LastMove.is_en_passant)
    /\ KingSquares(board, LastMove.piece.color) # {}
    /\ \A king \in KingSquares(board, LastMove.piece.color) :
           ~RuleAttacked(board, king, current_turn)
    /\ \E sq \in OwnSquares(board, GameState) :
           \E to_square \in get_possible_moves(board, board[sq], GameState) :
               _would_leave_king_in_check(board, board[sq], to_square, GameState)

\* C3: after execute followed by undo of a legal move of any kind, every square holds
\* the piece it held before the execute.
C3_ExecuteUndoRestoresBoard ==
    \A call \in LegalCalls : Undone(Executed(call)).board = board

\* C4: execute, undo, redo of a legal move leaves the board, the turn, the en passant
\* target and the move history as they were after the execute, and takes exactly that
\* move off the redo stack.
C4_RedoReappliesMove ==
    \A call \in LegalCalls :
        LET executed == Executed(call)
            undone == Undone(executed)
            redone == Redone(undone)
        IN /\ redone.raised = "None"
           /\ redone.board = executed.board
           /\ redone.game_state.current_turn = executed.game_state.current_turn
           /\ current_en_passant_target(redone.game_state)
                  = current_en_passant_target(executed.game_state)
           /\ redone.game_state.move_history = executed.game_state.move_history
           /\ redone.game_state.redo_history = executed.game_state.redo_history

\* C5: right after an execute that returns, the redo stack is empty whatever it held
\* before, and a redo then returns nothing and changes nothing.
C5_ExecuteClearsRedo ==
    \A call \in LegalCalls :
        LET executed == Executed(call)
        IN executed.raised = "None" =>
              /\ executed.game_state.redo_history = << >>
              /\ Redone(executed)
                     = Outcome(executed.board, executed.game_state, "None", NoMove)

\* C5 witness: a new move is executed while undone moves are waiting on the redo stack.
C5_Witness ==
    /\ redo_history # << >>
    /\ raised = "None"
    /\ Len(move_history) < MaxPlies
    /\ \E call \in LegalCalls :
          /\ Executed(call).raised = "None"
          /\ Executed(call).game_state.redo_history = << >>
          /\ Executed(call).game_state.move_history # move_history

Reverse(seq) == [i \in 1..Len(seq) |-> seq[Len(seq) + 1 - i]]

\* The line of the game: the moves played, then the undone moves in the order they
\* were played.
CombinedLine == move_history \o Reverse(redo_history)

\* The position after the first count moves of a line, played from a base position.
RECURSIVE Replayed(_, _, _)
Replayed(outcome, line, count) ==
    IF count = 0
    THEN outcome
    ELSE LET before == Replayed(outcome, line, count - 1)
         IN execute_move(before.board, before.game_state,
                         line[count].from_square, line[count].to_square, "None")

BasePosition ==
    Outcome(place_pieces(EmptyBoard, loaded.pieces), GameState_load_from_fen_data(loaded),
            "None", NoMove)

\* C6: for every index i from 0 to len(history) + len(redo), jump_to_history_index(i)
\* leaves the first i moves of the combined line in the history, the remaining moves on
\* the redo stack, and the board of the position after those i moves.
C6_JumpReachesIndex ==
    raised = "None" =>
        \A target_index \in 0..Len(CombinedLine) :
            LET jumped == jump_to_history_index(board, GameState, target_index)
            IN /\ jumped.raised = "None"
               /\ jumped.game_state.move_history = SubSeq(CombinedLine, 1, target_index)
               /\ jumped.game_state.redo_history
                      = Reverse(SubSeq(CombinedLine, target_index + 1, Len(CombinedLine)))
               /\ jumped.board = Replayed(BasePosition, CombinedLine, target_index).board

\* The indices below 0 and above len(history) + len(redo) that are tried.
OutOfRange ==
    {target_index \in (-(MaxPlies + 1))..(2 * MaxPlies + 1) :
        target_index < 0 \/ target_index > Len(move_history) + Len(redo_history)}

\* C7: jump_to_history_index with a negative index or one above len(history) +
\* len(redo) raises the range error and leaves the board, both histories and the turn
\* (the whole game state) unchanged.
C7_JumpOutOfRangeRaises ==
    raised = "None" =>
        \A target_index \in OutOfRange :
            jump_to_history_index(board, GameState, target_index)
                = Outcome(board, GameState, "ValueError: Invalid history index", NoMove)

\* C7 witness: an out-of-range jump was refused in the middle of a line, with moves
\* both played and undone.
C7_Witness ==
    /\ raised = "ValueError: Invalid history index"
    /\ move_history # << >>
    /\ redo_history # << >>

HomeRank(color) == IF color = "WHITE" THEN 0 ELSE 7

\* The castling right of a color on the side of a corner file (7 kingside, 0 queenside).
Right(rights, color, file) ==
    IF color = "WHITE"
    THEN IF file = 7 THEN rights.white_kingside ELSE rights.white_queenside
    ELSE IF file = 7 THEN rights.black_kingside ELSE rights.black_queenside

RookOnCorner(a_board, color, file) ==
    /\ a_board[<<file, HomeRank(color)>>] # None
    /\ a_board[<<file, HomeRank(color)>>].piece_type = "ROOK"
    /\ a_board[<<file, HomeRank(color)>>].color = color

\* C8: in every position reached by legal execute, undo and redo calls, each castling
\* right still set has its rook on the home corner, and get_legal_moves for a king has
\* not raised the invalid-state error.
C8_RightsAgreeWithRooks ==
    /\ raised # "ValueError: Invalid game state"
    /\ \A color \in {"WHITE", "BLACK"} :
           \A file \in {0, 7} :
               Right(castling_rights, color, file) => RookOnCorner(board, color, file)

\* C9: when an executed move captures a rook standing on a home corner of its own back
\* rank, the right of the rook's owner for that side is false after the execute.
C9_CornerRookCaptureClearsRight ==
    \A call \in LegalCalls :
        LET executed == Executed(call)
        IN \A file \in {0, 7} :
              (/\ executed.raised = "None"
               /\ call[2] = <<file, HomeRank(opponent(current_turn))>>
               /\ RookOnCorner(board, opponent(current_turn), file))
              => ~Right(executed.game_state.castling_rights, opponent(current_turn), file)

\* The rights the two rules name for a move of the piece on from_square.
NamedRights(a_board, from_square) ==
    LET piece == a_board[from_square]
    IN IF piece.piece_type = "KING"
       THEN {<<piece.color, 0>>, <<piece.color, 7>>}
       ELSE IF /\ piece.piece_type = "ROOK"
               /\ from_square[2] = HomeRank(piece.color)
               /\ from_square[1] \in {0, 7}
       THEN {<<piece.color, from_square[1]>>}
       ELSE {}

\* C10: after a king move both rights of the mover are false, after a rook move from a
\* home corner of its own back rank the mover's right for that side is false, and every
\* other right keeps the value it had.
C10_RightsAfterKingOrRookMove ==
    \A call \in LegalCalls :
        LET executed == Executed(call)
        IN executed.raised = "None" =>
              \A color \in {"WHITE", "BLACK"} :
                  \A file \in {0, 7} :
                      IF <<color, file>> \in NamedRights(board, call[1])
                      THEN ~Right(executed.game_state.castling_rights, color, file)
                      ELSE Right(executed.game_state.castling_rights, color, file)
                               = Right(castling_rights, color, file)

\* The executed call moves a pawn or captures (an en passant capture is a pawn move).
PawnMoveOrCapture(call) ==
    \/ board[call[1]].piece_type = "PAWN"
    \/ board[call[2]] # None

\* C11: after every executed move the halfmove clock is 0 if the move was a pawn move
\* or a capture, and one more than before the move otherwise.
C11_HalfmoveClockFollowsMoves ==
    \A call \in LegalCalls :
        LET executed == Executed(call)
        IN executed.raised = "None" =>
              executed.game_state.halfmove_clock
                  = IF PawnMoveOrCapture(call) THEN 0 ELSE halfmove_clock + 1

\* C12: the fullmove number grows by one with each executed Black move and is
\* unchanged by each executed White move.
C12_FullmoveNumberCountsBlackMoves ==
    \A call \in LegalCalls :
        LET executed == Executed(call)
        IN executed.raised = "None" =>
              executed.game_state.fullmove_number
                  = IF current_turn = "BLACK" THEN fullmove_number + 1 ELSE fullmove_number

\* A pawn advancing two ranks from from_square to to_square.
DoublePush(piece, from_square, to_square) ==
    /\ piece.piece_type = "PAWN"
    /\ Abs(to_square[2] - from_square[2]) = 2

\* The en passant captures among the legal calls: a pawn moving to another file onto an
\* empty square.
EnPassantCalls ==
    {call \in LegalCalls :
        /\ board[call[1]].piece_type = "PAWN"
        /\ call[2][1] # call[1][1]
        /\ board[call[2]] = None}

\* C13: after any executed move the current en passant target is the move's
\* destination if a pawn advanced two ranks and is empty otherwise; an en passant
\* capture is legal only right after a double push (or on the loaded target), next to
\* the pawn that made it.
C13_EnPassantTargetFollowsDoublePush ==
    /\ \A call \in LegalCalls :
           LET executed == Executed(call)
           IN executed.raised = "None" =>
                 current_en_passant_target(executed.game_state)
                     = IF DoublePush(board[call[1]], call[1], call[2])
                       THEN call[2]
                       ELSE NoSquare
    /\ \A call \in EnPassantCalls :
           /\ current_en_passant_target(GameState) = <<call[2][1], call[1][2]>>
           /\ IF move_history = << >>
              THEN initial_en_passant_target = <<call[2][1], call[1][2]>>
              ELSE DoublePush(LastMove.piece, LastMove.from_square, LastMove.to_square)

\* C13 witness: a pawn has just advanced two ranks, its destination is the current
\* target, and the en passant capture of it is among the legal moves.
C13_Witness ==
    /\ raised = "None"
    /\ move_history # << >>
    /\ DoublePush(LastMove.piece, LastMove.from_square, LastMove.to_square)
    /\ current_en_passant_target(GameState) = LastMove.to_square
    /\ EnPassantCalls # {}

\* C14: executing a pawn move onto the en passant taking square puts the pawn there,
\* empties its origin, removes the enemy pawn from the en passant target square (the
\* destination's file, the origin's rank) and records that pawn as the captured piece.
C14_EnPassantCaptureRemovesPawn ==
    \A call \in EnPassantCalls :
        LET executed == Executed(call)
            target == <<call[2][1], call[1][2]>>
        IN /\ executed.raised = "None"
           /\ executed.board[call[2]] = [board[call[1]] EXCEPT !.position = call[2]]
           /\ executed.board[call[1]] = None
           /\ board[target].piece_type = "PAWN"
           /\ board[target].color = opponent(current_turn)
           /\ executed.board[target] = None
           /\ executed.result.captured_piece = board[target]
           /\ executed.result.is_en_passant

\* C14 witness: an en passant capture has just been executed: the capturing pawn stands
\* on the taking square and the pawn it took is off the board.
C14_Witness ==
    /\ raised = "None"
    /\ move_history # << >>
    /\ LastMove.is_en_passant
    /\ LastMove.captured_piece.piece_type = "PAWN"
    /\ board[LastMove.captured_piece.position] = None
    /\ board[LastMove.to_square].piece_type = "PAWN"
    /\ board[LastMove.from_square] = None

\* The square a king of a color lands on when castling towards a corner file.
CastlingDestination(color, file) == <<IF file = 7 THEN 6 ELSE 2, HomeRank(color)>>

\* get_legal_moves offers the king on king_square the castling move towards file: a
\* move of two files along its rank.
CastlingOffered(king_square, file) ==
    LET destination == CastlingDestination(board[king_square].color, file)
    IN /\ destination \in get_legal_moves(board, board[king_square], GameState)
       /\ king_square[2] = destination[2]
       /\ Abs(king_square[1] - destination[1]) = 2

\* The conditions of the castling rule for the king on king_square, with attack judged
\* by the rules of chess.
CastlingAllowed(king_square, file) ==
    LET color == board[king_square].color
        rank == HomeRank(color)
        between == IF file = 7 THEN {5, 6} ELSE {1, 2, 3}
        crossed == IF file = 7 THEN 5 ELSE 3
    IN /\ Right(castling_rights, color, file)
       /\ king_square = <<4, rank>>
       /\ \A f \in between : board[<<f, rank>>] = None
       /\ ~RuleAttacked(board, king_square, opponent(color))
       /\ ~RuleAttacked(board, <<crossed, rank>>, opponent(color))
       /\ ~RuleAttacked(board, CastlingDestination(color, file), opponent(color))

PromotionCalls == {call \in LegalCalls : call[3] # "None"}

\* C16: executing a pawn move onto its last rank with a promotion kind returns a move
\* record marked as a promotion and leaves a piece of that kind and of the pawn's color
\* on the destination; undo then puts the pawn back on its origin and leaves on the
\* destination what stood there before (nothing, or the captured piece).
C16_PromotionExecutesAndUndoes ==
    \A call \in PromotionCalls :
        LET executed == Executed(call)
            undone == Undone(executed)
        IN /\ executed.raised = "None"
           /\ executed.result # NoMove
           /\ executed.result.is_promotion
           /\ executed.board[call[2]] = Piece(current_turn, call[3], call[2])
           /\ undone.board[call[1]] = board[call[1]]
           /\ undone.board[call[2]] = board[call[2]]

\* C17: execute for a pawn move onto its promotion rank without a promotion kind fails
\* with an error and does not move the pawn.
C17_PromotionKindRequired ==
    \A call \in PromotionCalls :
        LET executed == execute_move(board, GameState, call[1], call[2], "None")
        IN /\ executed.raised # "None"
           /\ executed.board = board

\* Calls of execute_move that may end with an error: any origin without a piece, and
\* the legal moves with every promotion kind, supported, unsupported or absent.
RiskyCalls ==
    IF raised # "None"
    THEN {}
    ELSE {<<from_square, <<4, 4>>, "None">> :
              from_square \in {sq \in Squares : board[sq] = None}}
         \cup
         {<<call[1], call[2], kind>> :
              call \in LegalCalls, kind \in PromotionTypes \cup {"None", "KING", "PAWN"}}

\* C18: whenever execute ends with an error, the board, the castling rights, the move
\* history, the redo stack and the turn are as they were before the call.
C18_FailedExecuteChangesNothing ==
    \A call \in RiskyCalls :
        LET executed == Executed(call)
        IN executed.raised # "None" =>
              /\ executed.board = board
              /\ executed.game_state.castling_rights = castling_rights
              /\ executed.game_state.move_history = move_history
              /\ executed.game_state.redo_history = redo_history
              /\ executed.game_state.current_turn = current_turn

\* C19: a FEN load that fails with a FEN error leaves the board and the game state
\* exactly as they were before the call, whichever string was given and whatever had
\* been played.
C19_FailedFenLoadChangesNothing ==
    raised = "None" =>
        \A fen_string \in FenStrings :
            LET load == FENLoader_load(board, GameState, fen_string)
            IN load.raised = "FENError" =>
                  /\ load.board = board
                  /\ load.game_state = GameState

\* A string that does not parse was loaded into a game with moves played and moves
\* undone, and the load raised the FEN error.
C19_Witness ==
    /\ raised = "FENError"
    /\ move_history # << >>
    /\ redo_history # << >>

\* The strings of the dialog are what they are meant to be: the two positions parse to
\* the FEN data of the start positions, every other string is refused.
FenStringsParse ==
    /\ ~FENParser_parse_raises(FenStringKingside)
    /\ FENParser_parse(FenStringKingside) = FenKingside
    /\ ~FENParser_parse_raises(FenStringEnPassant)
    /\ FENParser_parse(FenStringEnPassant) = FenEnPassant
    /\ ~FENParser_parse_raises(STARTING_FEN)
    /\ ~FENParser_parse_raises(FenStringKingsideLoose)
    /\ FENParser_parse(FenStringKingsideLoose) = FenKingside
    /\ ~FENParser_parse_raises(FenStringEnPassantBlackLoose)
    /\ FENParser_parse(FenStringEnPassantBlackLoose) = FenEnPassantBlack
    /\ \A fen_string \in FenStrings \ {FenStringKingside, FenStringEnPassant,
                                         FenStringKingsideLoose,
                                         FenStringEnPassantBlackLoose} :
           FENParser_parse_raises(fen_string)

\* C20: a PGN load that fails, on the document's syntax or at any of its moves, leaves
\* the board and the game state exactly as they were before the call.
C20_FailedPgnLoadChangesNothing ==
    raised = "None" =>
        \A pgn_string \in PgnDocuments :
            LET load == PGNLoader_load(board, GameState, pgn_string)
            IN load.raised # "None" =>
                  /\ load.board = board
                  /\ load.game_state = GameState

\* A PGN load that fails with the PGN error (an empty document, a FEN tag that does not
\* parse) leaves the board and the game state as they were.
PgnErrorChangesNothing ==
    raised = "None" =>
        \A pgn_string \in PgnDocuments :
            LET load == PGNLoader_load(board, GameState, pgn_string)
            IN load.raised = "PGNError" =>
                  /\ load.board = board
                  /\ load.game_state = GameState

\* C21: for every FEN string the parser accepts, the position loaded from it, written
\* out by the generator and parsed again, gives the data the string parsed to:
\* placement, active color, castling rights, en passant target, halfmove clock and
\* fullmove number.
C21_FenRoundTrip ==
    (raised = "None" /\ move_history = << >> /\ redo_history = << >>) =>
        \A fen_string \in FenStrings :
            (~FENParser_parse_raises(fen_string) /\ FENParser_parse(fen_string) = loaded) =>
                LET generated == FENGenerator_generate(board, GameState)
                IN /\ ~FENParser_parse_raises(generated)
                   /\ FENParser_parse(generated) = FENParser_parse(fen_string)

\* A position with an en passant target was loaded from a string the generator does not
\* write that way: digits in a row, two blanks, clocks with leading zeros.
C21_Witness ==
    /\ raised = "None"
    /\ move_history = << >>
    /\ redo_history = << >>
    /\ loaded = FENParser_parse(FenStringEnPassantBlackLoose)
    /\ initial_en_passant_target = <<4, 3>>
    /\ FENGenerator_generate(board, GameState) # FenStringEnPassantBlackLoose
    /\ FENGenerator_generate(board, GameState) = FenStringEnPassantBlack

\* The SAN text generated for a legal call, with the check suffix as by default.
GeneratedSan(call) ==
    move_to_san(move_to_describe(board, GameState, call[1], call[2]), board, GameState, TRUE)

\* The legal calls that are not castling.
NonCastlingCalls ==
    {call \in LegalCalls : ~_is_castling_move(board[call[1]], call[1], call[2])}

\* C22: in every reachable position, the SAN text generated for a legal move is
\* generated without error and resolves, in that position, to the move's origin,
\* destination and promotion kind; it is never refused as illegal or ambiguous.
C22_SanResolvesToItsMove ==
    \A call \in LegalCalls :
        /\ GeneratedSan(call).raised = "None"
        /\ LET resolved == _resolve_san_move(board, GameState, GeneratedSan(call).san)
           IN /\ resolved.raised = "None"
              /\ resolved.from_square = call[1]
              /\ resolved.to_square = call[2]
              /\ resolved.promotion = call[3]

\* Castling is the one kind of move whose text is generated: O-O and O-O-O resolve to
\* the king's move they were generated for.
CastlingSanResolves ==
    \A call \in LegalCalls \ NonCastlingCalls :
        /\ GeneratedSan(call).raised = "None"
        /\ _resolve_san_move(board, GameState, GeneratedSan(call).san)
              = Resolved("None", call[1], call[2], "None")

\* Every other legal move's text ends in the AttributeError.
OtherSanRaises ==
    \A call \in NonCastlingCalls : GeneratedSan(call).raised = "AttributeError"

\* The suffix the rules give the text of a move: "#" when the opponent is in check
\* without a legal move in the position after it, "+" when in check with one, none
\* otherwise.
SuffixDue(call) ==
    LET executed == Executed(call)
        opponent_color == opponent(board[call[1]].color)
    IN IF ~is_in_check(executed.board, opponent_color)
       THEN << >>
       ELSE IF get_all_legal_moves(executed.board, opponent_color, executed.game_state) = {}
       THEN <<"#">>
       ELSE <<"+">>

Suffix(san) ==
    IF san # << >> /\ san[Len(san)] \in {"+", "#"} THEN <<san[Len(san)]>> ELSE << >>

\* C23: with the check suffix enabled, the text of any legal move other than castling is
\* generated and ends with "#" exactly when the opponent is checkmated after the move,
\* with "+" exactly when the opponent is in check with a legal move, with neither
\* otherwise.
C23_CheckSuffixFollowsPosition ==
    \A call \in NonCastlingCalls :
        /\ GeneratedSan(call).raised = "None"
        /\ (/\ Executed(call).raised = "None"
            /\ ~get_all_legal_moves_raises(Executed(call).board,
                                           opponent(board[call[1]].color),
                                           Executed(call).game_state))
              => Suffix(GeneratedSan(call).san) = SuffixDue(call)

\* The move sequences looked up: every line of up to three of the catalog's tokens and
\* of a token no line holds.
LookupTokens == {"e4", "e5", "c5", "Nf3", "Ke2"}

LookupLines ==
    {<< >>} \cup {<<a>> : a \in LookupTokens}
            \cup {<<a, b>> : a \in {"e4", "d4"}, b \in LookupTokens}
            \cup {<<"e4", "c5", c>> : c \in LookupTokens}

\* The node a move sequence leads to, by the paths of the trie.
NodeOf(san_moves) ==
    IF san_moves \in DOMAIN opening_trie THEN opening_trie[san_moves].openings ELSE {}

NamesAt(san_moves) == {o.opening_name : o \in NodeOf(san_moves)}

VariationsAt(san_moves) == {o.variation_name : o \in NodeOf(san_moves)}

\* C24: lookup of a move sequence returns nothing if some move of the path has no node
\* or the final node's set is empty; the Book Move sentinel exactly when the set holds
\* two or more opening names; the name with the variation when it holds one name and
\* one variation value; the name without variation when it holds one name and several
\* variation values.
C24_LookupRollsUp ==
    \A san_moves \in LookupLines :
        LET found == lookup(opening_trie, san_moves)
        IN /\ (found = NoOpening) <=> (NodeOf(san_moves) = {})
           /\ (found = Opening(BOOK_MOVE, "None")) <=> (Cardinality(NamesAt(san_moves)) >= 2)
           /\ (Cardinality(NamesAt(san_moves)) = 1 /\ Cardinality(VariationsAt(san_moves)) = 1)
                 => \E o \in NodeOf(san_moves) : found = o
           /\ (Cardinality(NamesAt(san_moves)) = 1 /\ Cardinality(VariationsAt(san_moves)) > 1)
                 => /\ found.opening_name \in NamesAt(san_moves)
                    /\ found.variation_name = "None"

\* Three rows were read: after 1. e4 the trie holds two openings and lookup answers
\* Book Move, after 1. e4 c5 one opening in two variations, after 1. e4 e5 one entry.
C24_Witness ==
    /\ Cardinality(NamesAt(<<"e4", "c5">>)) = 1
    /\ Cardinality(VariationsAt(<<"e4", "c5">>)) > 1
    /\ Cardinality(NamesAt(<<"e4">>)) >= 2
    /\ lookup(opening_trie, <<"e4">>) = Opening(BOOK_MOVE, "None")
    /\ lookup(opening_trie, <<"e4", "c5">>) = Opening("Sicilian Defense", "None")
    /\ lookup(opening_trie, <<"e4", "e5">>) = Opening("Italian Game", "None")

Parent(path) == SubSeq(path, 1, Len(path) - 1)

C26_GetLegalMovesChangesNothing ==
    /\ [](raised = "None" =>
             \A square \in Squares :
                 board[square] # None =>
                     board_after_get_legal_moves(board, board[square], GameState) = board)
    /\ [][GetLegalMoves =>
             UNCHANGED <<board, move_history, redo_history, current_turn, castling_rights,
                         halfmove_clock, fullmove_number, initial_en_passant_target>>]_vars

\* A pawn can capture en passant, so the test of that move takes the pawn, the
\* square it arrives on and the captured pawn's square off their contents and
\* puts all three back.
C26_Witness ==
    /\ raised = "None"
    /\ \E square \in Squares :
          /\ board[square] # None
          /\ \E to_square \in get_possible_moves(board, board[square], GameState) :
                LET capture_square == _get_capture_square(board[square], to_square, GameState)
                IN /\ capture_square # to_square
                   /\ board[capture_square] # None
                   /\ _simulated_board(board, board[square], to_square, GameState) # board

\* Calls of execute_move for the legal moves, each with no promotion kind and
\* with every kind a PGN token or an engine reply can carry.
KindCalls ==
    {<<call[1], call[2], kind>> : call \in LegalCalls, kind \in PromotionTypes \cup {"None"}}

\* C30: execute replaces the moved piece by a piece of another kind only when
\* the moved piece is a pawn arriving on its last rank; with any other move the
\* piece on the destination afterwards is of the kind that left the origin,
\* whatever promotion kind was supplied.
C30_OnlyPawnsOnLastRankPromote ==
    \A call \in KindCalls :
        LET mover == board[call[1]]
            arrived == Executed(call).board[call[2]]
        IN ~is_promotion_move(board, call[1], call[2]) =>
              /\ arrived # None
              /\ arrived.piece_type = mover.piece_type
              /\ arrived.color = mover.color

NoPawnOnEndRanks(a_board) ==
    \A square \in Squares :
        (square[2] \in {0, 7} /\ a_board[square] # None) => a_board[square].piece_type # "PAWN"

\* C31: in every position reached by execute, undo or redo no pawn stands on
\* rank 0 or rank 7: not on the board of the session, and not on the board
\* execute leaves for a legal move, whether or not a promotion kind is given.
C31_NoPawnOnEndRanks ==
    /\ NoPawnOnEndRanks(board)
    /\ \A call \in KindCalls : NoPawnOnEndRanks(Executed(call).board)

\* With the promotion kind given whenever is_promotion_move says so, the boards
\* execute and a following undo leave hold no pawn on an end rank.
PromotingCallsKeepEndRanksFree ==
    /\ NoPawnOnEndRanks(board)
    /\ \A call \in LegalCalls :
          /\ NoPawnOnEndRanks(Executed(call).board)
          /\ NoPawnOnEndRanks(Undone(Executed(call)).board)


\* Every piece standing on a_board has a stored position equal to its square.
\* A piece object has one stored position, so no object stands on two squares.
PositionsMatch(a_board) ==
    \A square \in Squares :
        a_board[square] # None => a_board[square].position = square

C33_AttackedExactlyByTheRules ==
    \A square \in Squares, color \in Colors :
        is_square_attacked(board, square, color) <=> RuleAttacked(board, square, color)

\* Two pieces of one color stand on a line with a square behind them: the far
\* one, a rook, is shut off by the near one, a king, which does not reach the
\* square either, and is_square_attacked says the square is not attacked.
C33_Witness ==
    /\ board[<<0, 0>>] = Piece("WHITE", "ROOK", <<0, 0>>)
    /\ board[<<0, 2>>] = Piece("WHITE", "KING", <<0, 2>>)
    /\ ~is_square_attacked(board, <<0, 4>>, "WHITE")
    /\ is_square_attacked(board, <<0, 1>>, "WHITE")


\* Each color has at most one king on a_board.
AtMostOneKingEach(a_board) ==
    \A color \in Colors : Cardinality(KingSquares(a_board, color)) <= 1

\* C34: from a position with at most one king per color, the position execute
\* reaches has at most one king per color, for every legal move and whatever
\* promotion kind is passed with it, king and pawn included; so it is in every
\* position of a session.
C34_ExecuteAddsNoKing ==
    /\ AtMostOneKingEach(board)
    /\ \A call \in RiskyCalls : AtMostOneKingEach(Executed(call).board)

\* A pawn can move onto its last rank, and execute asked to promote it to a
\* king refuses with a key error before the board is touched.
C34_Witness ==
    \E call \in PromotionCalls :
        LET executed == execute_move(board, GameState, call[1], call[2], "KING")
        IN /\ executed.raised = "KeyError"
           /\ executed.board = board
           /\ Cardinality(KingSquares(board, current_turn)) = 1


\* C35: undo called with an empty move history, and redo called with an empty
\* redo stack, each return nothing, raise nothing and leave the board, the
\* turn, both histories and the castling rights as they were.
C35_NothingToUndoOrRedo ==
    raised = "None" =>
        /\ move_history = << >> =>
               undo_move(board, GameState) = Outcome(board, GameState, "None", NoMove)
        /\ redo_history = << >> =>
               redo_move(board, GameState) = Outcome(board, GameState, "None", NoMove)

\* The one move made was undone: the move history is empty with a move on the
\* redo stack, the turn is back with the first mover, and undo is asked again.
C35_Witness ==
    /\ raised = "None"
    /\ move_history = << >>
    /\ Len(redo_history) = 1
    /\ current_turn = redo_history[1].piece.color
    /\ undo_move(board, GameState).result = NoMove


\* C37: for every move sequence whose path exists in the trie, get_continuations
\* holds exactly one pair (s, o) for each child move s of the node, with o the
\* answer of lookup for the sequence followed by s; for a sequence whose path
\* does not exist it is empty.
C37_ContinuationsAgreeWithLookup ==
    \A san_moves \in LookupLines :
        LET continuations == get_continuations(opening_trie, san_moves)
        IN IF san_moves \in DOMAIN opening_trie
           THEN /\ continuations =
                       {<<san, lookup(opening_trie, Append(san_moves, san))>> :
                            san \in opening_trie[san_moves].children}
                /\ Cardinality(continuations) = Cardinality(opening_trie[san_moves].children)
           ELSE continuations = {}

\* After 1. e4 the book continues with e5 and with c5, and the openings paired
\* with the two moves differ from each other and from the opening of 1. e4.
C37_Witness ==
    /\ <<"e4">> \in DOMAIN opening_trie
    /\ opening_trie[<<"e4">>].children = {"e5", "c5"}
    /\ lookup(opening_trie, <<"e4", "e5">>) # lookup(opening_trie, <<"e4", "c5">>)
    /\ lookup(opening_trie, <<"e4">>) = Opening(BOOK_MOVE, "None")
    /\ Cardinality(get_continuations(opening_trie, <<"e4">>)) = 2


\* The catalog entries that can be inserted: moves, opening name, variation.
CatalogRows == CatalogLines \X CatalogNames \X CatalogVariations

InsertRow(a_trie, row) == insert(a_trie, row[1], row[2], row[3])

\* C38: the trie's nodes and every node's set of openings do not depend on the
\* order in which entries are inserted, and inserting an entry twice gives the
\* trie of inserting it once: on every trie built so far, two further entries
\* give the same trie in either order, and an entry given twice the trie of
\* giving it once. lookup reads nothing but the trie, so equal tries answer
\* every move sequence alike.
C38_InsertOrderDoesNotMatter ==
    \A first \in CatalogRows :
        LET once == InsertRow(opening_trie, first)
        IN /\ InsertRow(once, first) = once
           /\ \A second \in CatalogRows :
                 LET one_way == InsertRow(once, second)
                     other_way == InsertRow(InsertRow(opening_trie, second), first)
                 IN one_way = other_way

\* Two entries that share the prefix 1. e4 c5 were inserted: the nodes of the
\* prefix hold both, the node of 1. e4 c5 Nf3 holds one.
C38_Witness ==
    /\ rows_read = 2
    /\ <<"e4", "c5", "Nf3">> \in DOMAIN opening_trie
    /\ Cardinality(opening_trie[<<"e4">>].openings) = 2
    /\ Cardinality(opening_trie[<<"e4", "c5">>].openings) = 2
    /\ Cardinality(opening_trie[<<"e4", "c5", "Nf3">>].openings) = 1


\* C39: for any trie built by inserts, lookup of the empty move sequence returns
\* nothing: the root reports neither an opening nor the Book Move sentinel.
C39_LookupOfNoMovesIsNothing ==
    /\ lookup(opening_trie, << >>) = NoOpening
    /\ \A row \in CatalogRows : lookup(InsertRow(opening_trie, row), << >>) = NoOpening

\* Three entries of two opening names were inserted, all beginning 1. e4: the
\* first move answers Book Move and the empty sequence answers nothing.
C39_Witness ==
    /\ rows_read = 3
    /\ opening_trie[<< >>].children = {"e4"}
    /\ Cardinality(opening_trie[<<"e4">>].openings) = 3
    /\ lookup(opening_trie, <<"e4">>) = Opening(BOOK_MOVE, "None")
    /\ lookup(opening_trie, << >>) = NoOpening


\* Castling fields a FEN can carry: subsets of KQkq in several orders, fields
\* that repeat a letter, and fields with a letter that is no right.
CastlingFields ==
    {<<"-">>, <<"K">>, <<"q">>, <<"K", "Q">>, <<"k", "K">>, <<"q", "K", "k", "Q">>,
     <<"K", "Q", "k", "q">>, <<"K", "K">>, <<"k", "K", "k">>, <<"K", "Q", "k", "q", "K">>,
     <<"K", "X">>, <<"-", "-">>, <<"K", "-">>}

\* The field is '-' or letters of KQkq, none of them twice.
NonRepeatingRights(castling) ==
    \/ castling = <<"-">>
    \/ /\ castling # << >>
       /\ \A i \in 1..Len(castling) : castling[i] \in {"K", "Q", "k", "q"}
       /\ \A i, j \in 1..Len(castling) : castling[i] = castling[j] => i = j

\* C40: parsing a FEN whose castling field repeats a letter fails with a FEN
\* error for that field; only '-' or a subset of KQkq without repetition, in
\* any order, is accepted, as a field alone and as the third field of a FEN
\* string given to the loader.
C40_RepeatedCastlingLetterRefused ==
    /\ \A castling \in CastlingFields :
          _parse_castling_raises(castling) <=> ~NonRepeatingRights(castling)
    /\ raised = "None" => FENParser_parse_raises(FenStringKingsideLoose)

\* Apart from repeated letters the castling field is judged as described: the
\* fields that repeat no letter are accepted or refused as NonRepeatingRights says.
CastlingFieldsWithoutRepetition ==
    \A castling \in CastlingFields :
        (\A i, j \in 1..Len(castling) : castling[i] = castling[j] => i = j) =>
            (_parse_castling_raises(castling) <=> ~NonRepeatingRights(castling))

====
